---- MODULE Spec2Model ----
(***************************************************************************)
(* The setting extraction / rewrite engine of the AnKing note types        *)
(* add-on: src/anking_notetypes/config.py (NoteTypeSetting and its         *)
(* subclasses, safe_update_model, read_in_settings_from_notetypes),        *)
(* gui/config_window.py and notetype_setting_definitions.py.               *)
(*                                                                         *)
(* Text.  A Python str is modelled as a sequence of lexemes.  A lexeme is  *)
(* either one character (" ", ";", a digit ...) or a word that the texts   *)
(* of this model only ever use whole ("var", "true", "color" ...); the     *)
(* lexemes are cut so that every literal the code searches for ("true",    *)
(* "none", "color: ", a decimal numeral ...) is a sequence of whole        *)
(* lexemes, e.g. "background-color" is <<"background-", "color">>.  On     *)
(* such texts substring search, replacement and regular-expression         *)
(* matching over lexemes coincide with the same operations over            *)
(* characters.                                                             *)
(***************************************************************************)
EXTENDS Integers, Sequences, FiniteSets, TLC

(***************************************************************************)
(* str operations                                                          *)
(***************************************************************************)

\* name = value, then the statements after it
Bind(value, Rest(_)) == Rest(value)

\* s[i:i+len(sub)] == sub   (i is 1-based)
OccursAt(s, sub, i) ==
    /\ i >= 1
    /\ i + Len(sub) - 1 <= Len(s)
    /\ \A j \in 1..Len(sub) : s[i + j - 1] = sub[j]

\* s.find(sub) + 1 : the index of the first occurrence, 0 when there is none
Find(s, sub) ==
    LET hits == {i \in 1..(Len(s) + 1) : OccursAt(s, sub, i)}
    IN  IF hits = {} THEN 0 ELSE CHOOSE i \in hits : \A j \in hits : i <= j

\* sub in s
Contains(s, sub) == Find(s, sub) # 0

\* str.replace(old, new, 1) replacing the last occurrence instead of the first
ReplaceLast(s, old, new) ==
    IF ~Contains(s, old) THEN s
    ELSE LET i == CHOOSE j \in 1..(Len(s) + 1) :
                     /\ OccursAt(s, old, j)
                     /\ \A k \in (j + 1)..(Len(s) + 1) : ~OccursAt(s, old, k)
         IN  SubSeq(s, 1, i - 1) \o new \o SubSeq(s, i + Len(old), Len(s))

\* s.replace(old, new, 1)
ReplaceFirst(s, old, new) ==
    LET i == Find(s, old)
    IN  IF i = 0 THEN s
        ELSE SubSeq(s, 1, i - 1) \o new \o SubSeq(s, i + Len(old), Len(s))

\* s.replace(old, new) for a non-empty old: every non-overlapping occurrence,
\* left to right
RECURSIVE ReplaceAll(_, _, _)
ReplaceAll(s, old, new) ==
    LET i == Find(s, old)
    IN  IF i = 0 \/ old = <<>> THEN s
        ELSE SubSeq(s, 1, i - 1) \o new
             \o ReplaceAll(SubSeq(s, i + Len(old), Len(s)), old, new)

Digits == <<"0", "1", "2", "3", "4", "5", "6", "7", "8", "9">>

DigitValue(c) == (CHOOSE i \in 1..10 : Digits[i] = c) - 1

IsDigit(c) == \E i \in 1..10 : Digits[i] = c

\* int(s) succeeds: s is a non-empty run of decimal digits (the texts of the
\* model hold no sign, blank or underscore inside a capture)
IsInt(s) == Len(s) >= 1 /\ \A i \in 1..Len(s) : IsDigit(s[i])

\* int(s)
RECURSIVE IntOf(_)
IntOf(s) ==
    IF s = <<>> THEN 0
    ELSE 10 * IntOf(SubSeq(s, 1, Len(s) - 1)) + DigitValue(s[Len(s)])

\* str(n) for n >= 0
RECURSIVE StrOf(_)
StrOf(n) ==
    IF n < 10 THEN <<Digits[n + 1]>>
    ELSE StrOf(n \div 10) \o <<Digits[(n % 10) + 1]>>

(***************************************************************************)
(* re: a backtracking matcher for the constructs the descriptor table      *)
(* uses.  A pattern is a sequence of nodes; alternatives and repetitions   *)
(* are tried in Python's priority order, and the first complete match      *)
(* wins.  Only group 1 is recorded (the codecs read group(0) and group(1)  *)
(* only).                                                                  *)
(***************************************************************************)

Unbounded == 0 - 1

\* a literal lexeme; [abc]; [^abc]; .
Lit(c) == [k |-> "cls", neg |-> FALSE, set |-> {c}]
In(S) == [k |-> "cls", neg |-> FALSE, set |-> S]
NotIn(S) == [k |-> "cls", neg |-> TRUE, set |-> S]
Dot == NotIn({"\n"})
\* X{min,max} greedy / lazy over the node sequence body
Rep(body, min, max, lazy) ==
    [k |-> "rep", body |-> body, min |-> min, max |-> max, lazy |-> lazy]
Star(x) == Rep(<<x>>, 0, Unbounded, FALSE)
Plus(x) == Rep(<<x>>, 1, Unbounded, FALSE)
StarLazy(x) == Rep(<<x>>, 0, Unbounded, TRUE)
PlusLazy(x) == Rep(<<x>>, 1, Unbounded, TRUE)
Opt(body) == Rep(body, 0, 1, FALSE)
\* (a|b|...) : opts is a sequence of node sequences
Alt(opts) == [k |-> "alt", opts |-> opts]
\* the parentheses of group 1
Open1 == [k |-> "open"]
Close1 == [k |-> "close"]

NoMatch == [ok |-> FALSE, end |-> 0, s1 |-> 0, e1 |-> 0]

\* the lexeme at position i of s belongs to the class c
Fits(c, s, i) == i <= Len(s) /\ ((s[i] \in c.set) # c.neg)

\* the number of lexemes of class c from position pos on, at most limit
Run(c, s, pos, limit) ==
    CHOOSE n \in 0..limit :
        /\ \A k \in 0..(n - 1) : Fits(c, s, pos + k)
        /\ n = limit \/ ~Fits(c, s, pos + n)

Max(S) == CHOOSE x \in S : \A y \in S : x >= y

\* Match the node sequence p against s from position pos on; s1, e1 are the
\* bounds of group 1 so far.  end is the position after the match.  A
\* repetition of one class tries its counts in order, fewest first when lazy,
\* most first when greedy; any other repetition unrolls one round at a time.
RECURSIVE MatchAt(_, _, _, _, _)
MatchAt(p, s, pos, s1, e1) ==
    IF p = <<>> THEN [ok |-> TRUE, end |-> pos, s1 |-> s1, e1 |-> e1]
    ELSE
    LET h == Head(p)
        t == Tail(p)
    IN  CASE h.k = "cls" ->
               \* the classes p starts with, taken together
               LET n == Max({k \in 1..Len(p) : \A i \in 1..k : p[i].k = "cls"})
               IN  IF \A i \in 1..n : Fits(p[i], s, pos + i - 1)
                   THEN MatchAt(SubSeq(p, n + 1, Len(p)), s, pos + n, s1, e1)
                   ELSE NoMatch
          [] h.k = "open" -> MatchAt(t, s, pos, pos, e1)
          [] h.k = "close" -> MatchAt(t, s, pos, s1, pos)
          [] h.k = "alt" ->
               IF h.opts = <<>> THEN NoMatch
               ELSE LET r == MatchAt(Head(h.opts) \o t, s, pos, s1, e1)
                    IN  IF r.ok THEN r
                        ELSE MatchAt(<<Alt(Tail(h.opts))>> \o t, s, pos, s1, e1)
          [] h.k = "rep" /\ Len(h.body) = 1 /\ h.body[1].k = "cls" ->
               LET left == Len(s) + 1 - pos
                   limit == IF h.max = Unbounded \/ h.max > left THEN left
                            ELSE h.max
                   found == {x \in {<<n, MatchAt(t, s, pos + n, s1, e1)>> :
                                 n \in h.min..Run(h.body[1], s, pos, limit)} :
                                x[2].ok}
               IN  IF found = {} THEN NoMatch
                   ELSE (CHOOSE x \in found : \A y \in found :
                             IF h.lazy THEN x[1] <= y[1] ELSE x[1] >= y[1])[2]
          [] OTHER ->
               LET less(n) == IF n > 0 THEN n - 1 ELSE n
                   again == h.body
                            \o <<Rep(h.body, less(h.min), less(h.max), h.lazy)>>
                            \o t
               IN  IF h.min > 0 THEN MatchAt(again, s, pos, s1, e1)
                   ELSE IF h.max = 0 THEN MatchAt(t, s, pos, s1, e1)
                   ELSE IF h.lazy
                   THEN LET r == MatchAt(t, s, pos, s1, e1)
                        IN  IF r.ok THEN r ELSE MatchAt(again, s, pos, s1, e1)
                   ELSE LET r == MatchAt(again, s, pos, s1, e1)
                        IN  IF r.ok THEN r ELSE MatchAt(t, s, pos, s1, e1)

\* the match at the rightmost start instead of the leftmost
SearchLast(p, s) ==
    LET found == {x \in {<<pos, MatchAt(p, s, pos, 0, 0)>> :
                             pos \in 1..(Len(s) + 1)} : x[2].ok}
        x == CHOOSE x \in found : \A y \in found : x[1] >= y[1]
    IN  IF found = {} THEN [ok |-> FALSE]
        ELSE [ok |-> TRUE, start |-> x[1], end |-> x[2].end,
              s1 |-> x[2].s1, e1 |-> x[2].e1]

\* re.search(p, s): the leftmost match; start..end-1 is group(0), s1..e1-1 is
\* group(1)
Search(p, s) ==
    LET found == {x \in {<<pos, MatchAt(p, s, pos, 0, 0)>> :
                             pos \in 1..(Len(s) + 1)} : x[2].ok}
        x == CHOOSE x \in found : \A y \in found : x[1] <= y[1]
    IN  IF found = {} THEN [ok |-> FALSE]
        ELSE [ok |-> TRUE, start |-> x[1], end |-> x[2].end,
              s1 |-> x[2].s1, e1 |-> x[2].e1]

Group0(s, m) == SubSeq(s, m.start, m.end - 1)
Group1(s, m) == SubSeq(s, m.s1, m.e1 - 1)

\* re.findall(p, s): the matches from left to right, each search starting
\* where the match before it ended (the patterns of the registry match no
\* empty text); g0 is the match, g1 its group 1
RECURSIVE FindAll(_, _)
FindAll(p, s) ==
    Bind(Search(p, s), LAMBDA m :
    IF ~m.ok THEN <<>>
    ELSE <<[g0 |-> Group0(s, m), g1 |-> Group1(s, m)]>>
         \o FindAll(p, SubSeq(s, m.end, Len(s))))

(***************************************************************************)
(* The descriptor table: setting_configs of                                *)
(* notetype_setting_definitions.py.  The codec classes of config.py read   *)
(* the keys type, file, regex, replacement_pairs and with_inherit_option.  *)
(***************************************************************************)

Sp == Lit(" ")

\* QUOT_STR_RE = r'(?:\\.|[^"\\])': a backslash with the character after it
\* is one lexeme of the texts, so both alternatives consume one lexeme
QUOT_STR_RE == NotIn({"\"", "\\"})

\* r"(?:<!-- ?)?\{\{#.+?\}\}[\w\W]+?\{\{/.+?\}\}(?: ?-->)?"
CONDITIONAL_FIELD_RE ==
    <<Opt(<<Lit("<!--"), Opt(<<Sp>>)>>), Lit("{{#"), PlusLazy(Dot), Lit("}}"),
      PlusLazy(NotIn({})), Lit("{{/"), PlusLazy(Dot), Lit("}}"),
      Opt(<<Opt(<<Sp>>), Lit("-->")>>)>>

\* r'(class="hint"|id="extra"|id="dermnet"|id="ome")'
CONFIGURABLE_FIELD_HAS_TO_CONTAIN_RE ==
    <<Open1, Alt(<< <<Lit("class=\"hint\"")>>, <<Lit("id=\"extra\"")>>,
                    <<Lit("id=\"dermnet\"")>>, <<Lit("id=\"ome\"")>> >>), Close1>>

\* r"\{\{#(.+?)\}\}"
CONFIGURABLE_FIELD_NAME_RE ==
    <<Lit("{{#"), Open1, PlusLazy(Dot), Close1, Lit("}}")>>

Config(name, type, file, regex) ==
    [name |-> name, type |-> type, file |-> file, regex |-> regex,
     replacement_pairs |-> <<>>, with_inherit_option |-> FALSE,
     configurable_field_name |-> "", hint_button_setting |-> ""]

\* r"var +autoflip += +(false|true)"
autoflip ==
    Config("autoflip", "checkbox", "front",
           <<Lit("var"), Plus(Sp), Lit("autoflip"), Plus(Sp), Lit("="), Plus(Sp),
             Open1, Alt(<< <<Lit("false")>>, <<Lit("true")>> >>), Close1>>)

\* r"var +seconds += +([^ /\n]*)"
timer_secs ==
    Config("timer_secs", "number", "front",
           <<Lit("var"), Plus(Sp), Lit("seconds"), Plus(Sp), Lit("="), Plus(Sp),
             Open1, Star(NotIn({" ", "/", "\n"})), Close1>>)

\* r"(<!--|{{)tts.+?(-->|}})", replacement_pairs [("<!--", "{{"), ("-->", "}}")]
front_tts ==
    [Config("front_tts", "re_checkbox", "front",
            <<Open1, Alt(<< <<Lit("<!--")>>, <<Lit("{{")>> >>), Close1,
              Lit("tts"), PlusLazy(Dot),
              Alt(<< <<Lit("-->")>>, <<Lit("}}")>> >>)>>)
     EXCEPT !.replacement_pairs =
                << << <<"<!--">>, <<"{{">> >>, << <<"-->">>, <<"}}">> >> >>]

\* rf'var +tagID += +"({QUOT_STR_RE}*?)"'
front_signal_tag ==
    Config("front_signal_tag", "text", "front",
           <<Lit("var"), Plus(Sp), Lit("tagID"), Plus(Sp), Lit("="), Plus(Sp),
             Lit("\""), Open1, StarLazy(QUOT_STR_RE), Close1,
             Lit("\"")>>)

\* rf'var +toggleTagsShortcut += +"({QUOT_STR_RE}*?)"'
tags_toggle_shortcut ==
    Config("tags_toggle_shortcut", "shortcut", "back",
           <<Lit("var"), Plus(Sp), Lit("toggleTagsShortcut"), Plus(Sp), Lit("="),
             Plus(Sp), Lit("\""), Open1, StarLazy(QUOT_STR_RE),
             Close1, Lit("\"")>>)

\* r'var +revealNextClozeMode += +"([^"]*?)"'
reveal_next_cloze_mode ==
    Config("reveal_next_cloze_mode", "dropdown", "back",
           <<Lit("var"), Plus(Sp), Lit("revealNextClozeMode"), Plus(Sp), Lit("="),
             Plus(Sp), Lit("\""), Open1, StarLazy(NotIn({"\""})), Close1,
             Lit("\"")>>)

\* r"\.timer *{[^}]*?display: (block|none);", replacement_pairs [("none", "block")]
timer ==
    [Config("timer", "re_checkbox", "style",
            <<Lit(".timer"), Star(Sp), Lit("{"), StarLazy(NotIn({"}"})),
              Lit("display"), Lit(":"), Sp,
              Open1, Alt(<< <<Lit("block")>>, <<Lit("none")>> >>), Close1,
              Lit(";")>>)
     EXCEPT !.replacement_pairs = << << <<"none">>, <<"block">> >> >>]

\* r"html *{[^}]*?font-size: (\d+)px;"
font_size ==
    Config("font_size", "number", "style",
           <<Lit("html"), Star(Sp), Lit("{"), StarLazy(NotIn({"}"})),
             Lit("font-size"), Lit(":"), Sp,
             Open1, Plus(In({Digits[i] : i \in 1..10})), Close1,
             Lit("px"), Lit(";")>>)

\* r"\.card.*\n*kbd *{[^}]*?font-family: (.+);"
font_family ==
    Config("font_family", "font_family", "style",
           <<Lit(".card"), Star(Dot), Star(Lit("\n")), Lit("kbd"), Star(Sp),
             Lit("{"), StarLazy(NotIn({"}"})), Lit("font-family"), Lit(":"), Sp,
             Open1, Plus(Dot), Close1, Lit(";")>>)

\* r"\.card *{[^}]*?color: (.+?);"
text_color ==
    Config("text_color", "color", "style",
           <<Lit(".card"), Star(Sp), Lit("{"), StarLazy(NotIn({"}"})),
             Lit("color"), Lit(":"), Sp, Open1, PlusLazy(Dot), Close1, Lit(";")>>)

\* r"\.card *{[^}]*?background-color: (.+?);"
background_color ==
    Config("background_color", "color", "style",
           <<Lit(".card"), Star(Sp), Lit("{"), StarLazy(NotIn({"}"})),
             Lit("background-"), Lit("color"), Lit(":"), Sp,
             Open1, PlusLazy(Dot), Close1, Lit(";")>>)

\* r"b *{[^}]*?color: (.+?)( +!important)?;", with_inherit_option True
bold_text_color ==
    [Config("bold_text_color", "color", "style",
            <<Lit("b"), Star(Sp), Lit("{"), StarLazy(NotIn({"}"})),
              Lit("color"), Lit(":"), Sp, Open1, PlusLazy(Dot), Close1,
              Opt(<<Plus(Sp), Lit("!important")>>), Lit(";")>>)
     EXCEPT !.with_inherit_option = TRUE]

\* button_auto_reveal_setting_config(field_name, default):
\* rf'var+ ButtonAutoReveal *= *{{[^}}]*?"{field_name}" *: *(.+),\n'
button_auto_reveal_setting_config(name, field_name) ==
    [Config(name, "checkbox", "back",
           <<Lit("va"), Plus(Lit("r")), Sp, Lit("ButtonAutoReveal"), Star(Sp),
             Lit("="), Star(Sp), Lit("{"), StarLazy(NotIn({"}"})),
             Lit("\""), Lit(field_name), Lit("\""), Star(Sp), Lit(":"), Star(Sp),
             Open1, Plus(Dot), Close1, Lit(","), Lit("\n")>>)
     EXCEPT !.configurable_field_name = field_name]

\* the list descriptor when every conditional element qualifies
field_order_every_element ==
    Config("field_order", "order", "back", <<Star(NotIn({}))>>)
        @@ [elem_re |-> CONDITIONAL_FIELD_RE,
            name_re |-> CONFIGURABLE_FIELD_NAME_RE,
            has_to_contain |-> <<Lit("{{#")>>]

\* setting_configs["field_order"]: regex r"[\w\W]*"
field_order ==
    Config("field_order", "order", "back", <<Star(NotIn({}))>>)
        @@ [elem_re |-> CONDITIONAL_FIELD_RE,
            name_re |-> CONFIGURABLE_FIELD_NAME_RE,
            has_to_contain |-> CONFIGURABLE_FIELD_HAS_TO_CONTAIN_RE]

\* the descriptor with the two markers in each other's place
disable_field_setting_config_swapped(name, field_name) ==
    Config(name, "wrap_checkbox", "back",
           <<Opt(<<Lit("<!--")>>), Lit("{{#"), Lit(field_name), Lit("}}"),
             PlusLazy(NotIn({})), Lit("{{/"), Lit(field_name), Lit("}}"),
             Opt(<<Lit("-->")>>)>>)
        @@ [wrap_into |-> << <<"-->">>, <<"<!--">> >>]

\* disable_field_setting_config(field_name, default):
\* rf"(<!--)?{{{{#{field_name}}}}}[\w\W]+?{{{{/{field_name}}}}}(-->)?"; the
\* codec reads neither group
disable_field_setting_config(name, field_name) ==
    Config(name, "wrap_checkbox", "back",
           <<Opt(<<Lit("<!--")>>), Lit("{{#"), Lit(field_name), Lit("}}"),
             PlusLazy(NotIn({})), Lit("{{/"), Lit(field_name), Lit("}}"),
             Opt(<<Lit("-->")>>)>>)
        @@ [wrap_into |-> << <<"<!--">>, <<"-->">> >>]

\* setting_configs[name]
setting_configs ==
    [n \in {"autoflip", "timer_secs", "front_tts", "front_signal_tag",
            "tags_toggle_shortcut", "reveal_next_cloze_mode", "timer",
            "font_size", "font_family", "text_color", "background_color",
            "bold_text_color", "autoreveal_extra", "autoreveal_other",
            "autoreveal_missed", "field_order", "disable_extra"} |->
        CASE n = "autoflip" -> autoflip
          [] n = "timer_secs" -> timer_secs
          [] n = "front_tts" -> front_tts
          [] n = "front_signal_tag" -> front_signal_tag
          [] n = "tags_toggle_shortcut" -> tags_toggle_shortcut
          [] n = "reveal_next_cloze_mode" -> reveal_next_cloze_mode
          [] n = "timer" -> timer
          [] n = "font_size" -> font_size
          [] n = "font_family" -> font_family
          [] n = "text_color" -> text_color
          [] n = "background_color" -> background_color
          [] n = "bold_text_color" -> bold_text_color
          [] n = "autoreveal_extra" ->
               button_auto_reveal_setting_config("autoreveal_extra", "Extra")
          [] n = "autoreveal_other" ->
               button_auto_reveal_setting_config("autoreveal_other", "Other")
          [] n = "autoreveal_missed" ->
               button_auto_reveal_setting_config("autoreveal_missed", "Missed")
          [] n = "field_order" -> field_order
          [] n = "disable_extra" ->
               disable_field_setting_config("disable_extra", "Extra")]

(***************************************************************************)
(* Values of the value-map (ConfigManager): Python bool, str, int, None.   *)
(***************************************************************************)

PyBool(b) == [t |-> "bool", b |-> b]
PyText(s) == [t |-> "str", s |-> s]
PyInt(n) == [t |-> "int", n |-> n]
PyNone == [t |-> "None"]
PyList(l) == [t |-> "list", l |-> l]

\* bool(v)
Truthy(v) ==
    CASE v.t = "bool" -> v.b
      [] v.t = "str" -> v.s # <<>>
      [] v.t = "int" -> v.n # 0
      [] v.t = "list" -> v.l # <<>>
      [] OTHER -> FALSE

\* str(v)
PyStr(v) ==
    CASE v.t = "bool" -> IF v.b THEN <<"True">> ELSE <<"False">>
      [] v.t = "str" -> v.s
      [] v.t = "int" -> StrOf(v.n)
      [] OTHER -> <<"None">>

\* The outcome of a call: a returned value, or the exception it raised.
Ok(v) == [exc |-> "none", v |-> v]
Raise(e) == [exc |-> e, msg |-> [error |-> e]]

(***************************************************************************)
(* The codecs: _extract_setting_value and _set_setting_value of the        *)
(* subclasses of NoteTypeSetting.                                          *)
(***************************************************************************)

\* the decode without the check of the section's state
ReCheckboxExtractUnchecked(nts, section) ==
    Ok(PyBool(\A i \in 1..Len(nts.replacement_pairs) :
                  Contains(section, nts.replacement_pairs[i][2])))

\* ReCheckboxSetting._extract_setting_value
ReCheckboxExtract(nts, section) ==
    LET pairs == nts.replacement_pairs
        checked == \A i \in 1..Len(pairs) : Contains(section, pairs[i][2])
        unchecked == \A i \in 1..Len(pairs) : Contains(section, pairs[i][1])
    IN  IF ~((checked \/ unchecked) /\ ~(checked /\ unchecked))
        THEN Raise("NotetypeParseException")
        ELSE Ok(PyBool(checked))

\* ReCheckboxSetting._set_setting_value: the loop over replacement_pairs, from
\* pair i on
RECURSIVE ReCheckboxReplace(_, _, _, _)
ReCheckboxReplace(pairs, i, result, setting_value) ==
    IF i > Len(pairs) THEN result
    ELSE ReCheckboxReplace(
             pairs, i + 1,
             IF Truthy(setting_value)
             THEN ReplaceAll(result, pairs[i][1], pairs[i][2])
             ELSE ReplaceAll(result, pairs[i][2], pairs[i][1]),
             setting_value)

ReCheckboxSet(nts, section, setting_value) ==
    Ok(ReCheckboxReplace(nts.replacement_pairs, 1, section, setting_value))

\* re.search(self.config["regex"], section).group(1): None has no group
Capture(nts, section) ==
    Bind(Search(nts.regex, section), LAMBDA m :
    IF m.ok THEN Ok(Group1(section, m)) ELSE Raise("AttributeError"))

\* CheckboxSetting._extract_setting_value
CheckboxExtract(nts, section) ==
    Bind(Capture(nts, section), LAMBDA value :
    IF value.exc # "none" THEN value
    ELSE IF value.v \notin {<<"true">>, <<"false">>}
    THEN Raise("AssertionError")
    ELSE Ok(PyBool(value.v = <<"true">>)))

\* CheckboxSetting._set_setting_value
CheckboxSet(nts, section, setting_value) ==
    Bind(CheckboxExtract(nts, section), LAMBDA current_value :
    IF current_value.exc # "none" THEN current_value
    ELSE LET current_value_str ==
                 IF current_value.v.b THEN <<"true">> ELSE <<"false">>
             new_value_str ==
                 IF Truthy(setting_value) THEN <<"true">> ELSE <<"false">>
         IN  Ok(ReplaceFirst(section, current_value_str, new_value_str)))

\* LineEditSetting / FontFamilySetting / ShortcutSetting / DropdownSetting
\* ._extract_setting_value
LineEditExtract(nts, section) ==
    Bind(Capture(nts, section), LAMBDA value :
    IF value.exc # "none" THEN value ELSE Ok(PyText(value.v)))

\* _set_setting_value that replaces the first occurrence of the captured text
LineEditSetFirst(nts, section, setting_value) ==
    Bind(Search(nts.regex, section), LAMBDA m :
    IF ~m.ok THEN Raise("AttributeError")
    ELSE IF setting_value.t # "str" THEN Raise("TypeError")
    ELSE Ok(ReplaceFirst(section, Group1(section, m), setting_value.s)))

\* LineEditSetting / FontFamilySetting / ShortcutSetting._set_setting_value
LineEditSet(nts, section, setting_value) ==
    Bind(Search(nts.regex, section), LAMBDA m :
    IF ~m.ok THEN Raise("AttributeError")
    ELSE IF setting_value.t # "str" THEN Raise("TypeError")
    ELSE Ok(SubSeq(section, 1, m.s1 - 1) \o setting_value.s
            \o SubSeq(section, m.e1, Len(section))))

\* DropdownSetting._set_setting_value
DropdownSet(nts, section, setting_value) ==
    Bind(LineEditExtract(nts, section), LAMBDA current_value :
    IF current_value.exc # "none" THEN current_value
    ELSE IF setting_value.t # "str" THEN Raise("TypeError")
    ELSE Ok(ReplaceFirst(section, current_value.v.s, setting_value.s)))

\* ColorSetting._extract_setting_value
ColorExtract(nts, section) ==
    Bind(Capture(nts, section), LAMBDA color_str :
    IF color_str.exc # "none" THEN color_str
    ELSE IF nts.with_inherit_option /\ color_str.v # <<"transparent">>
    THEN Ok(PyText(<<"inherit">>))
    ELSE Ok(PyText(color_str.v)))

\* ColorSetting._set_setting_value
ColorSet(nts, section, setting_value) ==
    Bind(ColorExtract(nts, section), LAMBDA current_value :
    IF current_value.exc # "none" THEN current_value
    ELSE IF nts.with_inherit_option
            /\ setting_value # PyText(<<"transparent">>)
    THEN Ok(ReplaceFirst(section, current_value.v.s, <<"inherit">>))
    ELSE IF setting_value.t # "str" THEN Raise("TypeError")
    ELSE Ok(ReplaceFirst(section, current_value.v.s, setting_value.s)))

\* NumberEditSetting._extract_setting_value
NumberEditExtract(nts, section) ==
    Bind(Capture(nts, section), LAMBDA value_str :
    IF value_str.exc # "none" THEN value_str
    ELSE IF ~IsInt(value_str.v) THEN Raise("ValueError")
    ELSE Ok(PyInt(IntOf(value_str.v))))

\* NumberEditSetting._set_setting_value
NumberEditSet(nts, section, setting_value) ==
    Bind(NumberEditExtract(nts, section), LAMBDA current_value :
    IF current_value.exc # "none" THEN current_value
    ELSE Ok(ReplaceFirst(section, PyStr(current_value.v),
                         PyStr(setting_value))))

(***************************************************************************)
(* The codecs of the kinds "order" and "wrap_checkbox" of the window's     *)
(* NotetypeSetting, as the specification describes them.                   *)
(***************************************************************************)

\* the matches of p in s from position from on, left to right, each search
\* starting where the match before it ended, with their positions in s
RECURSIVE FindAllAt(_, _, _)
FindAllAt(p, s, from) ==
    Bind(Search(p, SubSeq(s, from, Len(s))), LAMBDA m :
    IF ~m.ok THEN <<>>
    ELSE <<[start |-> from + m.start - 1, end |-> from + m.end - 1]>>
         \o FindAllAt(p, s, from + m.end - 1))

\* the qualifying elements of a section in document order: the matches of
\* elem_re that has_to_contain matches in, each with its name by name_re
Elements(nts, section) ==
    Bind(SelectSeq(FindAllAt(nts.elem_re, section, 1), LAMBDA e :
             Search(nts.has_to_contain, SubSeq(section, e.start, e.end - 1)).ok),
         LAMBDA elems :
    [i \in 1..Len(elems) |->
        Bind(SubSeq(section, elems[i].start, elems[i].end - 1), LAMBDA elem :
        [start |-> elems[i].start, end |-> elems[i].end, elem |-> elem,
         name |-> Group1(elem, Search(nts.name_re, elem))])])

\* decode of a reorderable list: the names of the qualifying elements
OrderExtract(nts, section) ==
    Bind(Elements(nts, section), LAMBDA elems :
    Ok(PyList([i \in 1..Len(elems) |-> elems[i].name])))

\* the number of the indices up to i at which q has the value q[i]
Occurrence(q, i) == Cardinality({j \in 1..i : q[j] = q[i]})

\* the section with the element of slot i and all later slots written anew,
\* pos being the first position not yet written
RECURSIVE OrderRebuild(_, _, _, _, _)
OrderRebuild(section, elems, names, i, pos) ==
    IF i > Len(elems) THEN SubSeq(section, pos, Len(section))
    ELSE SubSeq(section, pos, elems[i].start - 1)
         \o elems[CHOOSE k \in 1..Len(elems) :
                      /\ elems[k].name = names[i]
                      /\ Occurrence([j \in 1..Len(elems) |-> elems[j].name], k)
                             = Occurrence(names, i)].elem
         \o OrderRebuild(section, elems, names, i + 1, elems[i].end)

\* encode of a reorderable list that leaves the elements where they are
OrderSetKeep(nts, section, setting_value) ==
    IF setting_value.t # "list" THEN Raise("TypeError") ELSE Ok(section)

\* encode of a reorderable list: the qualifying elements in the order of the
\* names given, the text between them where it was.  The specification
\* leaves a list open that is no rearrangement of the decoded names.
OrderSet(nts, section, setting_value) ==
    Bind(Elements(nts, section), LAMBDA elems :
    IF setting_value.t # "list" THEN Raise("TypeError")
    ELSE IF \/ Len(setting_value.l) # Len(elems)
            \/ \E i \in 1..Len(elems) :
                   Cardinality({j \in 1..Len(elems) :
                                   elems[j].name = elems[i].name})
                       # Cardinality({j \in 1..Len(elems) :
                                        setting_value.l[j] = elems[i].name})
    THEN Raise("ValueError")
    ELSE Ok(OrderRebuild(section, elems, setting_value.l, 1, 1)))

StartsWith(s, prefix) == Len(prefix) <= Len(s) /\ SubSeq(s, 1, Len(prefix)) = prefix
EndsWith(s, suffix) ==
    Len(suffix) <= Len(s) /\ SubSeq(s, Len(s) - Len(suffix) + 1, Len(s)) = suffix

\* decode of a wrapped boolean that looks at the opening marker alone
WrapCheckboxExtractOpening(nts, section) ==
    Ok(PyBool(StartsWith(section, nts.wrap_into[1])))

\* decode of a wrapped boolean: the section begins with the opening marker
\* and ends with the closing one
WrapCheckboxExtract(nts, section) ==
    Ok(PyBool(StartsWith(section, nts.wrap_into[1])
                  /\ EndsWith(section, nts.wrap_into[2])))

\* encode of a wrapped boolean: the markers are added around the section or
\* stripped from it; a section that has the value already is left as it is
WrapCheckboxSet(nts, section, setting_value) ==
    Bind(WrapCheckboxExtract(nts, section).v.b, LAMBDA current :
    IF Truthy(setting_value) = current THEN Ok(section)
    ELSE IF Truthy(setting_value)
    THEN Ok(nts.wrap_into[1] \o section \o nts.wrap_into[2])
    ELSE Ok(SubSeq(section, Len(nts.wrap_into[1]) + 1,
                   Len(section) - Len(nts.wrap_into[2]))))

\* nts._extract_setting_value(section), by the class from_config selects
ExtractSettingValue(nts, section) ==
    CASE nts.type = "re_checkbox" -> ReCheckboxExtract(nts, section)
      [] nts.type = "order" -> OrderExtract(nts, section)
      [] nts.type = "wrap_checkbox" -> WrapCheckboxExtract(nts, section)
      [] nts.type = "checkbox" -> CheckboxExtract(nts, section)
      [] nts.type = "color" -> ColorExtract(nts, section)
      [] nts.type = "number" -> NumberEditExtract(nts, section)
      [] OTHER -> LineEditExtract(nts, section)

\* nts._set_setting_value(section, setting_value)
SetSettingValue(nts, section, setting_value) ==
    CASE nts.type = "re_checkbox" -> ReCheckboxSet(nts, section, setting_value)
      [] nts.type = "order" -> OrderSet(nts, section, setting_value)
      [] nts.type = "wrap_checkbox" -> WrapCheckboxSet(nts, section, setting_value)
      [] nts.type = "checkbox" -> CheckboxSet(nts, section, setting_value)
      [] nts.type = "color" -> ColorSet(nts, section, setting_value)
      [] nts.type = "number" -> NumberEditSet(nts, section, setting_value)
      [] nts.type = "dropdown" -> DropdownSet(nts, section, setting_value)
      [] OTHER -> LineEditSet(nts, section, setting_value)

(***************************************************************************)
(* Documents.  A notetype dict is [name, css, tmpls]; tmpls refers to the  *)
(* one template object [qfmt, afmt] on the heap (the code asserts          *)
(* len(templates) == 1).  dict.copy() is shallow: the copy refers to the   *)
(* same template object.                                                   *)
(***************************************************************************)

\* model.copy()
DictCopy(model) == model

\* the three texts of a document: front, back, style
Blobs(model, heap) ==
    [front |-> heap[model.tmpls].qfmt, back |-> heap[model.tmpls].afmt,
     style |-> model.css]

\* NoteTypeSetting._relevant_template_text
RelevantTemplateText(nts, model, heap) ==
    IF nts.file = "front" THEN heap[model.tmpls].qfmt
    ELSE IF nts.file = "back" THEN heap[model.tmpls].afmt
    ELSE model.css

\* NoteTypeSetting._relevant_template_section
RelevantTemplateSection(nts, model, heap) ==
    Bind(RelevantTemplateText(nts, model, heap), LAMBDA template_text :
    Bind(Search(nts.regex, template_text), LAMBDA section_match :
    IF ~section_match.ok
    THEN [exc |-> "NotetypeParseException",
          msg |-> [error |-> "could not find", name |-> nts.name,
                   file |-> nts.file, notetype |-> model.name]]
    ELSE Ok(Group0(template_text, section_match))))

\* NoteTypeSetting.setting_value
SettingValue(nts, model, heap) ==
    Bind(RelevantTemplateSection(nts, model, heap), LAMBDA section :
    IF section.exc # "none" THEN section
    ELSE ExtractSettingValue(nts, section.v))

\* NoteTypeSetting.key
Key(nts, notetype_name) == <<notetype_name, nts.name>>

\* conf[key]: ConfigManager answers None for a key that was never set
ConfGet(conf, key) == IF key \in DOMAIN conf THEN conf[key] ELSE PyNone

\* conf[key] = value
ConfSet(conf, key, value) ==
    [k \in (DOMAIN conf) \cup {key} |-> IF k = key THEN value ELSE conf[k]]

\* NoteTypeSetting.updated_model: the returned dict and the heap afterwards, or
\* the exception raised (nothing is written before the last raise)
UpdatedModel(nts, model, heap, notetype_name, conf) ==
    Bind(DictCopy(model), LAMBDA result :
    Bind(RelevantTemplateSection(nts, result, heap), LAMBDA section :
    IF section.exc # "none"
    THEN [exc |-> section.exc, msg |-> section.msg, heap |-> heap]
    ELSE
    Bind(ConfGet(conf, Key(nts, notetype_name)), LAMBDA setting_value :
    Bind(SetSettingValue(nts, section.v, setting_value),
         LAMBDA processed_section :
    IF processed_section.exc # "none"
    THEN [exc |-> processed_section.exc, msg |-> processed_section.msg,
          heap |-> heap]
    ELSE
    Bind(ReplaceFirst(RelevantTemplateText(nts, result, heap), section.v,
                      processed_section.v), LAMBDA updated_text :
    IF nts.file = "front"
    THEN [exc |-> "none", model |-> result,
          heap |-> [heap EXCEPT ![result.tmpls].qfmt = updated_text]]
    ELSE IF nts.file = "back"
    THEN [exc |-> "none", model |-> result,
          heap |-> [heap EXCEPT ![result.tmpls].afmt = updated_text]]
    ELSE [exc |-> "none", model |-> [result EXCEPT !.css = updated_text],
          heap |-> heap])))))

\* ntss_for_notetype: the descriptors of the listed setting names
Ntss(names) == [i \in 1..Len(names) |-> setting_configs[names[i]]]

\* the loop of safe_update_model keeping the first exception instead of the
\* last
RECURSIVE SafeUpdateLoopFirst(_, _, _, _, _, _)
SafeUpdateLoopFirst(ntss, i, result, heap, conf, parse_exception) ==
    IF i > Len(ntss)
    THEN [exc |-> "none", model |-> result, heap |-> heap,
          shown |-> IF parse_exception # <<>>
                    THEN << [by |-> "tooltip", entries |-> parse_exception] >>
                    ELSE <<>>]
    ELSE Bind(UpdatedModel(ntss[i], result, heap, result.name, conf), LAMBDA r :
             IF r.exc = "none"
             THEN SafeUpdateLoopFirst(ntss, i + 1, r.model, r.heap, conf,
                                      parse_exception)
             ELSE IF r.exc = "NotetypeParseException"
             THEN SafeUpdateLoopFirst(ntss, i + 1, result, heap, conf,
                                      IF parse_exception = <<>> THEN <<r.msg>>
                                      ELSE parse_exception)
             ELSE [exc |-> r.exc, heap |-> heap, shown |-> <<>>])

\* safe_update_model, the loop from ntss[i] on.  parse_exception is <<>> for
\* None, else <<e>>; an exception other than NotetypeParseException leaves
\* the loop and the function.
RECURSIVE SafeUpdateLoop(_, _, _, _, _, _)
SafeUpdateLoop(ntss, i, result, heap, conf, parse_exception) ==
    IF i > Len(ntss)
    THEN [exc |-> "none", model |-> result, heap |-> heap,
          shown |-> IF parse_exception # <<>>
                    THEN << [by |-> "tooltip", entries |-> parse_exception] >>
                    ELSE <<>>]
    ELSE Bind(UpdatedModel(ntss[i], result, heap, result.name, conf), LAMBDA r :
             IF r.exc = "none"
             THEN SafeUpdateLoop(ntss, i + 1, r.model, r.heap, conf,
                                 parse_exception)
             ELSE IF r.exc = "NotetypeParseException"
             THEN SafeUpdateLoop(ntss, i + 1, result, heap, conf, <<r.msg>>)
             ELSE [exc |-> r.exc, heap |-> heap, shown |-> <<>>])

\* safe_update_model
SafeUpdateModel(ntss, model, heap, conf) ==
    SafeUpdateLoop(ntss, 1, DictCopy(model), heap, conf, <<>>)

\* read_in_settings_from_notetypes, the loop over the descriptors of the
\* family's stored document from ntss[i] on; error_msg is the list of the
\* entries appended so far
RECURSIVE ReadInLoop(_, _, _, _, _, _)
ReadInLoop(ntss, i, model, heap, conf, error_msg) ==
    IF i > Len(ntss)
    THEN [exc |-> "none", conf |-> conf,
          shown |-> IF error_msg # <<>>
                    THEN << [by |-> "showInfo", entries |-> error_msg] >>
                    ELSE <<>>]
    ELSE Bind(SettingValue(ntss[i], model, heap), LAMBDA r :
             IF r.exc = "none"
             THEN ReadInLoop(ntss, i + 1, model, heap,
                             ConfSet(conf, Key(ntss[i], model.name), r.v),
                             error_msg)
             ELSE IF r.exc = "NotetypeParseException"
             THEN ReadInLoop(ntss, i + 1, model, heap, conf,
                             Append(error_msg, r.msg))
             ELSE [exc |-> r.exc, conf |-> conf, shown |-> <<>>])

\* read_in_settings_from_notetypes
ReadInSettingsFromNotetypes(ntss, model, heap, conf) ==
    ReadInLoop(ntss, 1, model, heap, conf, <<>>)

\* open_config_window, "if clayout:": the loop over the card layout's model
\* from ntss[i] on; it has no try
RECURSIVE LivePreviewLoop(_, _, _, _, _)
LivePreviewLoop(ntss, i, model, heap, conf) ==
    IF i > Len(ntss) THEN [exc |-> "none", conf |-> conf]
    ELSE Bind(SettingValue(ntss[i], model, heap), LAMBDA r :
             IF r.exc = "none"
             THEN LivePreviewLoop(ntss, i + 1, model, heap,
                                  ConfSet(conf, Key(ntss[i], model.name), r.v))
             ELSE [exc |-> r.exc, conf |-> conf])

\* open_config_window up to the set-up of the tabs: conf = ConfigManager(),
\* read_in_settings_from_notetypes, then the live preview loop when clayout
\* is given (clayout.model is the document)
OpenConfigWindow(ntss, model, heap, clayout) ==
    Bind(ReadInSettingsFromNotetypes(ntss, model, heap, <<>>), LAMBDA read :
    IF read.exc # "none" \/ ~clayout THEN read
    ELSE Bind(LivePreviewLoop(ntss, 1, model, heap, read.conf), LAMBDA live :
         [exc |-> live.exc, conf |-> live.conf, shown |-> read.shown]))

(***************************************************************************)
(* gui/config_window.py: the same operations as methods of                 *)
(* NotetypesConfigWindow.  NotetypeSetting (notetype_setting.py) is the    *)
(* class above under its later name; NotetypeSettingException is           *)
(* NotetypeParseException.                                                 *)
(***************************************************************************)

\* NotetypeSetting.is_present: the descriptor's section can be located
IsPresent(nts, model, heap) ==
    RelevantTemplateSection(nts, model, heap).exc = "none"

\* ntss_for_model: the descriptors of ntss present on the model, in order
RECURSIVE NtssForModel(_, _, _)
NtssForModel(ntss, model, heap) ==
    IF ntss = <<>> THEN <<>>
    ELSE (IF IsPresent(Head(ntss), model, heap) THEN <<Head(ntss)>> ELSE <<>>)
         \o NtssForModel(Tail(ntss), model, heap)

\* NotetypesConfigWindow._read_in_settings_from_notetypes: the model is
\* clayout.model in live preview mode, else the stored document; either way
\* the loop is the guarded one
WindowReadInSettingsFromNotetypes(ntss, model, heap, conf) ==
    ReadInLoop(NtssForModel(ntss, model, heap), 1, model, heap, conf, <<>>)

\* NotetypesConfigWindow._safe_update_model_settings, the loop from ntss[i]
\* on; model.update(...) writes the returned dict's entries into model
RECURSIVE SafeUpdateSettingsLoop(_, _, _, _, _, _, _, _)
SafeUpdateSettingsLoop(ntss, i, model, heap, model_base_name, conf, show_tooltip_on_exception, parse_exception) ==
    IF i > Len(ntss)
    THEN [exc |-> "none", model |-> model, heap |-> heap,
          v |-> (parse_exception = <<>>),
          shown |-> IF parse_exception # <<>> /\ show_tooltip_on_exception
                    THEN << [by |-> "tooltip", entries |-> parse_exception] >>
                    ELSE <<>>]
    ELSE Bind(UpdatedModel(ntss[i], model, heap, model_base_name, conf), LAMBDA r :
             IF r.exc = "none"
             THEN SafeUpdateSettingsLoop(ntss, i + 1, r.model, r.heap,
                                         model_base_name, conf,
                                         show_tooltip_on_exception,
                                         parse_exception)
             ELSE IF r.exc = "NotetypeParseException"
             THEN SafeUpdateSettingsLoop(ntss, i + 1, model, heap,
                                         model_base_name, conf,
                                         show_tooltip_on_exception, <<r.msg>>)
             ELSE [exc |-> r.exc, model |-> model, heap |-> heap,
                   shown |-> <<>>])

\* NotetypesConfigWindow._safe_update_model_settings
SafeUpdateModelSettings(ntss, model, heap, model_base_name, conf, show_tooltip_on_exception) ==
    SafeUpdateSettingsLoop(ntss, 1, model, heap, model_base_name, conf,
                           show_tooltip_on_exception, <<>>)

(***************************************************************************)
(* The documents and families the model starts from.                       *)
(***************************************************************************)

\* the longest descriptor list of a family built from DocTable
MaxNtss == 3

LineAutoflip(b) == <<"var", " ", "autoflip", " ", "=", " ", b, ";", "\n">>
LineSeconds(x) == <<"var", " ", "seconds", " ", "=", " ">> \o x \o <<"\n">>
LineQuoted(var, x) ==
    <<"var", " ", var, " ", "=", " ", "\"">> \o x \o <<"\"", ";", "\n">>
LineAutoReveal(entries) ==
    <<"va", "r", " ", "ButtonAutoReveal", " ", "=", " ", "{", "\n">>
        \o entries \o <<"}", "\n">>
Entry(field_name, x) == <<"\"", field_name, "\"", ":", " ">> \o x \o <<",">>
Block(selector, body) == selector \o <<" ", "{">> \o body \o <<" ", "}", "\n">>
Prop(name, value) == <<" ">> \o name \o <<":", " ">> \o value \o <<";">>

\* front templates
FrontPlain ==
    LineAutoflip("true") \o LineSeconds(<<"9">>)
        \o <<"{{", "tts", " ", "x", "}}", "\n">>
\* no timer: the seconds line is missing; tts is commented out
FrontNoTimer ==
    LineAutoflip("false") \o <<"<!--", "tts", " ", "x", "-->", "\n">>
\* no autoflip; a comment opens inside the tts tag
FrontMixedTts ==
    LineSeconds(<<"0", "9">>)
        \o <<"{{", "tts", " ", "<!--", " ", "x", "}}", "\n">>
\* the seconds statement ends with ";"
FrontSemicolon ==
    LineAutoflip("true") \o LineSeconds(<<"9", ";">>)
        \o <<"{{", "tts", " ", "x", "}}", "\n">>
\* the autoflip statement twice, nothing else
FrontTwice == LineAutoflip("true") \o LineAutoflip("true")
\* the tts tag opens as a comment and closes as a field
FrontHalfTts == <<"<!--", "tts", " ", "x", "}}", "\n">>

\* stylings
StylePlain ==
    Block(<<".card">>, Prop(<<"color">>, <<"black">>)
                       \o Prop(<<"background-", "color">>, <<"white">>))
\* background-color comes first in the block
StyleBackgroundFirst ==
    Block(<<".card">>, Prop(<<"background-", "color">>, <<"white">>)
                       \o Prop(<<"color">>, <<"black">>))
\* the colour's text occurs earlier in the block
StyleBorder ==
    Block(<<".card">>, Prop(<<"border">>, <<"black">>)
                       \o Prop(<<"color">>, <<"black">>))
\* no .card block
StyleNoCard == Block(<<"html">>, <<>>)
\* .timer {display: v;}
TimerStyle(v) == <<".timer", " ", "{", "display", ":", " ", v, ";", "}">>

\* the descriptors the multi-descriptor families are built from, in the order
\* of the families' lists
DocTable == <<"autoflip", "timer_secs", "front_tts", "text_color",
              "background_color">>

Doc(front, style) == [front |-> front, back |-> <<>>, style |-> style]

Docs ==
    { Doc(FrontPlain, StylePlain), Doc(FrontPlain, StyleBackgroundFirst),
      Doc(FrontNoTimer, StylePlain), Doc(FrontNoTimer, StyleNoCard),
      Doc(FrontMixedTts, StyleBorder), Doc(FrontMixedTts, StyleBackgroundFirst),
      Doc(FrontSemicolon, StylePlain), Doc(FrontTwice, StyleNoCard),
      Doc(FrontHalfTts, StyleNoCard) }

OnlyFront(S) == [front : S, back : {<<>>}, style : {<<>>}]
OnlyBack(S) == [front : {<<>>}, back : S, style : {<<>>}]
OnlyStyle(S) == [front : {<<>>}, back : {<<>>}, style : S]

\* the documents of the one-descriptor families of the other descriptors
CodecDocs(name) ==
    CASE name = "front_signal_tag" ->
           OnlyFront({ LineQuoted("tagID", <<"x">>),
                       LineQuoted("tagID", <<>>),
                       \* the captured text occurs before the capture
                       LineQuoted("tagID", <<"var">>),
                       LineQuoted("tagID", <<"x", "\\\"", "y">>) })
      [] name = "tags_toggle_shortcut" ->
           OnlyBack({ LineQuoted("toggleTagsShortcut", <<"x">>),
                      LineQuoted("ToggleNextButtonShortcut", <<"x">>)
                          \o LineQuoted("toggleTagsShortcut", <<"y">>) })
      [] name = "reveal_next_cloze_mode" ->
           OnlyBack({ LineQuoted("revealNextClozeMode", <<"cloze">>),
                      LineQuoted("revealNextClozeMode", <<"word">>),
                      LineQuoted("revealNextClozeMode", <<>>) })
      [] name = "autoreveal_extra" ->
           OnlyBack({ LineAutoReveal(Entry("Extra", <<"true">>) \o <<"\n">>),
                      LineAutoReveal(Entry("Other", <<"true">>) \o <<"\n">>
                                     \o Entry("Extra", <<"true">>) \o <<"\n">>),
                      \* two entries on one line
                      LineAutoReveal(Entry("Extra", <<"false">>) \o <<" ">>
                                     \o Entry("Other", <<"true">>) \o <<"\n">>) })
      [] name = "timer" ->
           OnlyStyle({ TimerStyle("none"),
                       Block(<<".timer">>, Prop(<<"display">>, <<"none">>)),
                       Block(<<".timer">>, Prop(<<"display">>, <<"block">>)),
                       Block(<<".timer">>, Prop(<<"color">>, <<"none">>)
                                           \o Prop(<<"display">>, <<"block">>)) })
      [] name = "font_size" ->
           OnlyStyle({ Block(<<"html">>, Prop(<<"font-size">>, <<"2", "8", "px">>)),
                       Block(<<"html">>, Prop(<<"width">>, <<"1", "2", "8", "px">>)
                                         \o Prop(<<"font-size">>, <<"2", "8", "px">>)),
                       Block(<<"html">>, Prop(<<"font-size">>, <<"0", "3", "0", "px">>)) })
      [] name = "font_family" ->
           OnlyStyle({ <<".card", ",", "\n">>
                           \o Block(<<"kbd">>, Prop(<<"font-family">>, <<"x">>)),
                       <<".card", ",", "\n">>
                           \o Block(<<"kbd">>, Prop(<<"font-family">>, <<"x", ",", " ", "y">>)
                                               \o Prop(<<"color">>, <<"red">>)) })
      [] name = "bold_text_color" ->
           OnlyStyle({ Block(<<"b">>, Prop(<<"color">>, <<"inherit", " ", "!important">>)),
                       Block(<<"b">>, Prop(<<"color">>, <<"red">>)),
                       Block(<<"b">>, Prop(<<"color">>, <<"transparent">>)),
                       Block(<<"b">>, Prop(<<"background">>, <<"transparent">>)
                                      \o Prop(<<"color">>, <<"transparent">>)) })

Range(q) == {q[i] : i \in DOMAIN q}

\* the descriptors of the other buttons share the codec and the locator's
\* form with autoreveal_extra
CodecTable ==
    (DOMAIN setting_configs)
        \ (Range(DocTable) \cup {"autoreveal_other", "autoreveal_missed",
                                  "field_order", "disable_extra"})

\* the elements of q at the indices in S, in the order of q
RECURSIVE Pick(_, _)
Pick(q, S) ==
    IF q = <<>> THEN <<>>
    ELSE (IF 1 \in S THEN <<Head(q)>> ELSE <<>>)
         \o Pick(Tail(q), {i - 1 : i \in S \ {1}})

\* settings_by_notetype[name]: the setting names of a family, in list order
Families ==
    {Pick(DocTable, S) :
        S \in {T \in SUBSET (DOMAIN DocTable) :
                  Cardinality(T) >= 1 /\ Cardinality(T) <= MaxNtss}}
    \cup {<<d>> : d \in CodecTable}

DocsOf(names) ==
    IF names[1] \in CodecTable THEN CodecDocs(names[1]) ELSE Docs

\* the values a widget can store for a descriptor
Domain(nts) ==
    CASE nts.type \in {"checkbox", "re_checkbox", "wrap_checkbox"} ->
           {PyBool(TRUE), PyBool(FALSE)}
      [] nts.type = "order" ->
           {PyList(l) : l \in { << <<"Other">>, <<"Extra">> >>,
                                << <<"Extra">>, <<"Other">> >>,
                                << <<"Extra">>, <<"Other">>, <<"Extra">> >>,
                                << <<"Extra">>, <<"Extra">>, <<"Other">> >>,
                                << <<"Other">>, <<"Extra">>, <<"Extra">> >> }}
      [] nts.type = "number" -> {PyInt(28), PyInt(30)}
      [] nts.type = "dropdown" -> {PyText(<<"cloze">>), PyText(<<"word">>)}
      [] nts.type = "color" ->
           IF nts.with_inherit_option
           THEN {PyText(<<"inherit">>), PyText(<<"red">>), PyText(<<"transparent">>)}
           ELSE {PyText(<<"black">>), PyText(<<"red">>)}
      [] OTHER -> {PyText(<<>>), PyText(<<"x">>), PyText(<<"y", ",", " ", "x">>)}

NotetypeName == "AnKing"

(***************************************************************************)
(* Registry and versioning: the orders of the descriptors of a tab and the *)
(* version stamp of a document.                                            *)
(***************************************************************************)

\* re.match(p, s): the match at the start of s
Match(p, s) ==
    Bind(MatchAt(p, s, 1, 0, 0), LAMBDA r :
    IF r.ok
    THEN [ok |-> TRUE, start |-> 1, end |-> r.end, s1 |-> r.s1, e1 |-> r.e1]
    ELSE [ok |-> FALSE])

\* q.index(x), for x in q
Index(q, x) == (CHOOSE i \in 1..Len(q) : q[i] = x /\ \A j \in 1..(i - 1) : q[j] # x) - 1

\* sorted(q, key=...): keys[i] is the key of q[i]; equal keys keep their order
StableSort(q, keys) ==
    [r \in 1..Len(q) |->
        q[CHOOSE i \in 1..Len(q) :
              r = 1 + Cardinality({j \in 1..Len(q) :
                          keys[j] < keys[i] \/ (keys[j] = keys[i] /\ j < i)})]]

\* the elements of q that are not elements of part: [x for x in q if x not
\* in part]
Without(q, part) == SelectSeq(q, LAMBDA x : \A i \in 1..Len(part) : part[i] # x)

\* the lexemes [\w\d] matches
WordChars == {Digits[i] : i \in 1..10} \cup {"a", "b"}

\* r"<!-- version ([\w\d]+) -->\n"
VersionPattern ==
    <<Lit("<!--"), Sp, Lit("version"), Sp, Open1, Plus(In(WordChars)), Close1,
      Sp, Lit("-->"), Lit("\n")>>

\* the stamp wherever it stands in the front template
ModelVersionAnywhere(front) ==
    Bind(Search(VersionPattern, front), LAMBDA m :
    IF ~m.ok THEN PyNone ELSE PyText(Group1(front, m)))

\* NotetypesConfigWindow.model_version, for the front template of the model
ModelVersion(front) ==
    Bind(Match(VersionPattern, front), LAMBDA m :
    IF ~m.ok THEN PyNone ELSE PyText(Group1(front, m)))

\* NotetypesConfigWindow._new_notetype_version_available; canon holds the
\* texts of anking_notetype_model(model["name"])
NewNotetypeVersionAvailable(model, heap, canon) ==
    ModelVersion(heap[model.tmpls].qfmt) # ModelVersion(canon.front)

\* NotetypesConfigWindow.models_with_available_updates over the one family
\* name of anking_notetype_names(); by_name answers the collection's object
\* for a stored name and None for any other
ModelsWithAvailableUpdates(name, store, model, heap, canon) ==
    IF name \in DOMAIN store /\ NewNotetypeVersionAvailable(model, heap, canon)
    THEN <<model>> ELSE <<>>

\* r"var+ ButtonShortcuts *= *{([^}]*)}"
ButtonShortcutsDictPattern ==
    <<Lit("va"), Plus(Lit("r")), Sp, Lit("ButtonShortcuts"), Star(Sp), Lit("="),
      Star(Sp), Lit("{"), Open1, Star(NotIn({"}"})), Close1, Lit("}")>>

\* r'"([^"]+)" *: *"([^"]*)"'
DictKeyValuePattern ==
    <<Lit("\""), Open1, Plus(NotIn({"\""})), Close1, Lit("\""), Star(Sp),
      Lit(":"), Star(Sp), Lit("\""), Star(NotIn({"\""})), Lit("\"")>>

\* result[btn_name] = shortcut for each pair: the keys of the OrderedDict, in
\* the order of their first insertion
RECURSIVE OdictKeys(_, _)
OdictKeys(pairs, result) ==
    IF pairs = <<>> THEN result
    ELSE OdictKeys(Tail(pairs),
                   IF \E i \in 1..Len(result) : result[i] = Head(pairs).g1
                   THEN result ELSE Append(result, Head(pairs).g1))

\* list(btn_name_to_shortcut_odict(notetype_name).keys()), back being the
\* back template of anking_notetype_templates()[notetype_name]
BtnNameToShortcutOdict(back) ==
    Bind(Search(ButtonShortcutsDictPattern, back), LAMBDA m :
    IF ~m.ok THEN <<>>
    ELSE OdictKeys(FindAll(DictKeyValuePattern, Group1(back, m)), <<>>))

\* nts.config.get("hint_button_setting", False): the button a descriptor
\* belongs to, "" for none
HintButtonSetting(nts) == nts.hint_button_setting

\* a descriptor of the table of model_settings.py: the button's descriptor with
\* the button's name under the key hint_button_setting
HintButtonNts(name) ==
    [setting_configs[name] EXCEPT
         !.hint_button_setting = setting_configs[name].configurable_field_name]

\* adjust_hint_button_nts_order: list.index raises ValueError for a name that
\* is not in the list
AdjustHintButtonNtsOrder(ntss, back) ==
    Bind(SelectSeq(ntss, LAMBDA nts : HintButtonSetting(nts) # ""),
         LAMBDA hint_button_ntss :
    Bind(BtnNameToShortcutOdict(back), LAMBDA ordered_btn_names :
    IF \E i \in 1..Len(hint_button_ntss) :
           \A j \in 1..Len(ordered_btn_names) :
               ordered_btn_names[j] # <<HintButtonSetting(hint_button_ntss[i])>>
    THEN Raise("ValueError")
    ELSE Ok(StableSort(hint_button_ntss,
                       [i \in 1..Len(hint_button_ntss) |->
                           Index(ordered_btn_names,
                                 <<HintButtonSetting(hint_button_ntss[i])>>)])
            \o Without(ntss, hint_button_ntss))))

\* configurable_fields_for_notetype, back being the back template of
\* anking_notetype_templates()[notetype_name]
ConfigurableFieldsForNotetype(back) ==
    Bind(SelectSeq(FindAll(CONDITIONAL_FIELD_RE, back), LAMBDA field :
             Search(CONFIGURABLE_FIELD_HAS_TO_CONTAIN_RE, field.g0).ok),
         LAMBDA fields :
    [i \in 1..Len(fields) |->
        Group1(fields[i].g0, Search(CONFIGURABLE_FIELD_NAME_RE, fields[i].g0))])

\* the tagged descriptors after the untagged, whatever their keys
UnsortedConfigurableFieldNtsOrder(ntss, back) ==
    Without(ntss, SelectSeq(ntss, LAMBDA nts : nts.configurable_field_name # ""))
        \o SelectSeq(ntss, LAMBDA nts : nts.configurable_field_name # "")

\* NotetypesConfigWindow._adjust_configurable_field_nts_order
AdjustConfigurableFieldNtsOrder(ntss, back) ==
    Bind(SelectSeq(ntss, LAMBDA nts : nts.configurable_field_name # ""),
         LAMBDA field_ntss :
    Bind(ConfigurableFieldsForNotetype(back), LAMBDA ordered_field_names :
    Bind([i \in 1..Len(field_ntss) |->
             IF \E j \in 1..Len(ordered_field_names) :
                    ordered_field_names[j]
                        = <<field_ntss[i].configurable_field_name>>
             THEN Index(ordered_field_names,
                        <<field_ntss[i].configurable_field_name>>)
             ELSE -1], LAMBDA keys :
    Without(ntss, field_ntss) \o StableSort(field_ntss, keys))))

\* the names of a list of descriptors
Names(q) == [i \in 1..Len(q) |-> q[i].name]

\* update_notetype_to_newest_version(model, notetype_name): the three texts
\* of the model become the canonical ones
UpdateNotetypeToNewestVersion(model, heap, canon) ==
    [model |-> [model EXCEPT !.css = canon.style],
     heap |-> [heap EXCEPT ![model.tmpls] =
                               [qfmt |-> canon.front, afmt |-> canon.back]]]

\* reset_notetype_and_reload_ui with the style left as it was
ResetNotetypeKeepStyle(model, heap, canon) ==
    [model |-> model,
     heap |-> [heap EXCEPT ![model.tmpls] =
                               [qfmt |-> canon.front, afmt |-> canon.back]]]

\* reset_notetype_and_reload_ui: model["tmpls"][0]["qfmt"] = front,
\* model["tmpls"][0]["afmt"] = back, model["css"] = styling
ResetNotetype(model, heap, canon) ==
    [model |-> [model EXCEPT !.css = canon.style],
     heap |-> [heap EXCEPT ![model.tmpls] =
                               [qfmt |-> canon.front, afmt |-> canon.back]]]

\* the descriptors of the family's tab, in the tab's order
TabOf(ntss, model, heap, canon) ==
    Names(AdjustConfigurableFieldNtsOrder(NtssForModel(Ntss(ntss), model, heap),
                                          canon.back))

(***************************************************************************)
(* The versions of a family's note type in the collection                  *)
(***************************************************************************)

\* names of the collection: one that an AnkiHub deck gives its note type,
\* one of a copy, one of a note type of no family
AnkiHubName == "AnKing (deck / user)"
CopyName == "AnKing-1dgs0"
ForeignName == "Basic"

\* mw.col.models.all_names_and_ids(): the names, sorted
AllNamesAndIds == <<"AnKing", AnkiHubName, CopyName, ForeignName>>

\* x.name == notetype_name, or x.name matches ANKIHUB_NOTETYPE_RE or
\* NOTETYPE_COPY_RE formatted with notetype_name
IsVersionName(x_name, notetype_name) ==
    \/ x_name = notetype_name
    \/ notetype_name = "AnKing" /\ x_name \in {AnkiHubName, CopyName}

\* NotetypesConfigWindow._notetype_versions, by the names of the models;
\* models are the collection's objects by name
NotetypeVersions(models, notetype_name) ==
    SelectSeq(AllNamesAndIds, LAMBDA x :
        x \in DOMAIN models /\ IsVersionName(x, notetype_name))

\* task of _update_all_notetypes_to_newest_version_and_reload_ui, the inner
\* loop from versions[i] on: each version is updated in place, then the
\* values of the value-map are put back
RECURSIVE UpdateVersionsLoop(_, _, _, _, _, _, _, _)
UpdateVersionsLoop(versions, i, models, heap, canon, ntss, base_name, conf) ==
    IF i > Len(versions)
    THEN [exc |-> "none", models |-> models, heap |-> heap]
    ELSE Bind(UpdateNotetypeToNewestVersion(models[versions[i]], heap, canon),
              LAMBDA u :
         Bind(SafeUpdateModelSettings(NtssForModel(ntss, u.model, u.heap),
                                      u.model, u.heap, base_name, conf, FALSE),
              LAMBDA r :
         IF r.exc # "none"
         THEN [exc |-> r.exc, heap |-> r.heap,
               models |-> [models EXCEPT ![versions[i]] = r.model]]
         ELSE UpdateVersionsLoop(versions, i + 1,
                                 [models EXCEPT ![versions[i]] = r.model],
                                 r.heap, canon, ntss, base_name, conf)))

\* NotetypesConfigWindow._apply_setting_changes_for_all_notetypes, the inner
\* loop from versions[i] on; written lists the update_dict calls
RECURSIVE ApplySettingChangesLoop(_, _, _, _, _, _, _, _, _, _)
ApplySettingChangesLoop(versions, i, models, heap, store, ntss, base_name, conf, shown, written) ==
    IF i > Len(versions)
    THEN [exc |-> "none", models |-> models, heap |-> heap, store |-> store,
          shown |-> shown, written |-> written]
    ELSE Bind(SafeUpdateModelSettings(
                  NtssForModel(ntss, models[versions[i]], heap),
                  models[versions[i]], heap, base_name, conf, TRUE),
              LAMBDA r :
         IF r.exc # "none"
         THEN [exc |-> r.exc, heap |-> r.heap, store |-> store,
               models |-> [models EXCEPT ![versions[i]] = r.model],
               shown |-> shown, written |-> written]
         ELSE ApplySettingChangesLoop(
                  versions, i + 1, [models EXCEPT ![versions[i]] = r.model],
                  r.heap,
                  [store EXCEPT ![versions[i]] = Blobs(r.model, r.heap)],
                  ntss, base_name, conf, shown \o r.shown,
                  Append(written, versions[i])))

(***************************************************************************)
(* The notice about new versions of the note types, shown when a profile   *)
(* has opened                                                              *)
(***************************************************************************)

\* anking_notetype_names(): the directories of the note types
AnkingNotetypeNames == <<"AnKing", "AnKingOverhaul">>

\* NotetypesConfigWindow.models_with_available_updates over the families
\* from names on; models are the collection's objects by name, canons the
\* canonical documents by name
RECURSIVE AllModelsWithAvailableUpdates(_, _, _, _)
AllModelsWithAvailableUpdates(names, models, heap, canons) ==
    IF names = <<>> THEN <<>>
    ELSE (IF /\ Head(names) \in DOMAIN models
             /\ NewNotetypeVersionAvailable(models[Head(names)], heap,
                                            canons[Head(names)])
          THEN <<models[Head(names)]>> ELSE <<>>)
         \o AllModelsWithAvailableUpdates(Tail(names), models, heap, canons)

\* the notice when the configuration is written whatever the answer is
MaybeShowNoticeAlwaysWritten(col, models, heap, canons, config, answer) ==
    IF ~col
    THEN [notice |-> FALSE, config |-> config, window |-> FALSE]
    ELSE
    Bind(AllModelsWithAvailableUpdates(AnkingNotetypeNames, models, heap,
                                       canons),
         LAMBDA models_with_available_updates :
    IF models_with_available_updates = <<>>
    THEN [notice |-> FALSE, config |-> config, window |-> FALSE]
    ELSE
    Bind(ConfGet(config, "latest_notified_note_type_version"),
         LAMBDA latest_notice_version :
    IF \A k \in 1..Len(models_with_available_updates) :
           ModelVersion(heap[models_with_available_updates[k].tmpls].qfmt)
               = latest_notice_version
    THEN [notice |-> FALSE, config |-> config, window |-> FALSE]
    ELSE
    Bind(ConfSet(config, "latest_notified_note_type_version",
                 ModelVersion(heap[models_with_available_updates[1].tmpls].qfmt)),
         LAMBDA written :
    [notice |-> TRUE,
     config |-> written,
     window |-> answer = "Yes"])))

\* maybe_show_notetypes_update_notice(): col is whether mw.col is there,
\* config the add-on's written configuration, answer the button the user
\* clicks when the dialog runs.  The result is whether the dialog ran, the
\* configuration as it is written afterwards and whether the window opens.
MaybeShowNotetypesUpdateNotice(col, models, heap, canons, config, answer) ==
    IF ~col
    THEN [notice |-> FALSE, config |-> config, window |-> FALSE]
    ELSE
    Bind(AllModelsWithAvailableUpdates(AnkingNotetypeNames, models, heap,
                                       canons),
         LAMBDA models_with_available_updates :
    IF models_with_available_updates = <<>>
    THEN [notice |-> FALSE, config |-> config, window |-> FALSE]
    ELSE
    Bind(ConfGet(config, "latest_notified_note_type_version"),
         LAMBDA latest_notice_version :
    IF \A k \in 1..Len(models_with_available_updates) :
           ModelVersion(heap[models_with_available_updates[k].tmpls].qfmt)
               = latest_notice_version
    THEN [notice |-> FALSE, config |-> config, window |-> FALSE]
    ELSE
    Bind(ConfSet(config, "latest_notified_note_type_version",
                 ModelVersion(heap[models_with_available_updates[1].tmpls].qfmt)),
         LAMBDA written :
    [notice |-> TRUE,
     config |-> IF answer \in {"Yes", "No"} THEN written ELSE config,
     window |-> answer = "Yes"])))

(***************************************************************************)
(* The state machine: a configuration window session over one family.      *)
(* pc is "start", "read" (the window is open), "crashed" (a handler has     *)
(* raised) or "done" (the model follows the session no further).           *)
(***************************************************************************)

VARIABLES
    ntss,     \* the family's setting names (settings_by_notetype[name])
    model,    \* the document object the caller holds
    heap,     \* the template objects
    conf,     \* the value-map (ConfigManager)
    pc,       \* "start", "read", "done" or "crashed"
    ret,      \* the last call: its name, the exception it raised, its result
    shown,    \* the reports (tooltip, showInfo) of the last call
    old,      \* the three texts of model when the last call began
    canon,    \* the canonical document: anking_notetype_templates()[name]
    store     \* the document the collection holds (mw.col.models)

vars == <<ntss, model, heap, conf, pc, ret, shown, old, canon, store>>

Init ==
    /\ ntss \in Families
    /\ \E doc \in DocsOf(ntss) :
          /\ model = [name |-> NotetypeName, css |-> doc.style, tmpls |-> 1]
          /\ heap = [r \in {1} |-> [qfmt |-> doc.front, afmt |-> doc.back]]
          /\ old = doc
          /\ canon = doc
          /\ store = (NotetypeName :> doc)
    /\ conf = <<>>
    /\ pc = "start"
    /\ ret = [op |-> "none", exc |-> "none"]
    /\ shown = <<>>

\* open_config_window(clayout): conf = ConfigManager(), then the settings
\* are read in; an exception ends the call
OpenWindow(clayout) ==
    /\ pc = "start"
    /\ \E r \in {OpenConfigWindow(Ntss(ntss), model, heap, clayout)} :
           /\ conf' = r.conf
           /\ shown' = r.shown
           /\ ret' = [op |-> "open_config_window", exc |-> r.exc,
                      clayout |-> clayout]
           /\ pc' = IF r.exc = "none" THEN "read" ELSE "crashed"
    /\ old' = Blobs(model, heap)
    /\ UNCHANGED <<ntss, model, heap, canon, store>>

\* NotetypesConfigWindow.open: self.conf = ConfigManager();
\* self._read_in_settings(), which skips a family the collection lacks
WindowOpen ==
    /\ pc = "start"
    /\ \E r \in {IF model.name \in DOMAIN store
                 THEN WindowReadInSettingsFromNotetypes(Ntss(ntss), model, heap,
                                                        <<>>)
                 ELSE [exc |-> "none", conf |-> <<>>, shown |-> <<>>]} :
           /\ conf' = r.conf
           /\ shown' = r.shown
           /\ ret' = [op |-> "NotetypesConfigWindow.open", exc |-> r.exc]
           /\ pc' = IF r.exc = "none" THEN "read" ELSE "crashed"
    /\ old' = Blobs(model, heap)
    /\ UNCHANGED <<ntss, model, heap, canon, store>>

\* the user changes the widget of one setting: conf.set(key, value)
SetValue(i, value) ==
    /\ pc = "read"
    /\ model.name \in DOMAIN store
    /\ conf' = ConfSet(conf, Key(Ntss(ntss)[i], model.name), value)
    /\ ret' = [op |-> "conf.set", exc |-> "none"]
    /\ shown' = <<>>
    /\ UNCHANGED <<ntss, model, heap, pc, old, canon, store>>

\* nts.updated_model(model, notetype_name, conf) for one descriptor
CallUpdatedModel(i) ==
    /\ pc = "read"
    /\ \E r \in {UpdatedModel(Ntss(ntss)[i], model, heap, model.name, conf)} :
           /\ heap' = r.heap
           /\ ret' = IF r.exc = "none"
                     THEN [op |-> "updated_model", exc |-> "none", i |-> i,
                           model |-> r.model]
                     ELSE [op |-> "updated_model", exc |-> r.exc, i |-> i]
    /\ shown' = <<>>
    /\ old' = Blobs(model, heap)
    /\ pc' = "done"
    /\ UNCHANGED <<ntss, model, conf, canon, store>>

\* safe_update_model(ntss, model, conf)
CallSafeUpdateModel ==
    /\ pc = "read"
    /\ \E r \in {SafeUpdateModel(Ntss(ntss), model, heap, conf)} :
           /\ heap' = r.heap
           /\ shown' = r.shown
           /\ ret' = IF r.exc = "none"
                     THEN [op |-> "safe_update_model", exc |-> "none",
                           model |-> r.model]
                     ELSE [op |-> "safe_update_model", exc |-> r.exc]
    /\ old' = Blobs(model, heap)
    /\ pc' = "done"
    /\ UNCHANGED <<ntss, model, conf, canon, store>>

\* self._safe_update_model_settings(model, model_base_name, ntss): the
\* caller's model is updated in place
CallSafeUpdateModelSettings ==
    /\ pc = "read"
    /\ \E r \in {SafeUpdateModelSettings(Ntss(ntss), model, heap, model.name,
                                         conf, TRUE)} :
           /\ heap' = r.heap
           /\ model' = r.model
           /\ shown' = r.shown
           /\ ret' = IF r.exc = "none"
                     THEN [op |-> "_safe_update_model_settings",
                           exc |-> "none", model |-> r.model, v |-> r.v]
                     ELSE [op |-> "_safe_update_model_settings",
                           exc |-> r.exc]
    /\ old' = Blobs(model, heap)
    /\ pc' = "done"
    /\ UNCHANGED <<ntss, conf, canon, store>>

Next ==
    \/ \E clayout \in BOOLEAN : OpenWindow(clayout)
    \/ WindowOpen
    \/ \E i \in 1..Len(ntss) : \E value \in Domain(Ntss(ntss)[i]) :
          SetValue(i, value)
    \/ \E i \in 1..Len(ntss) : CallUpdatedModel(i)
    \/ CallSafeUpdateModel
    \/ CallSafeUpdateModelSettings

Spec == Init /\ [][Next]_vars

(***************************************************************************)
(* The window over a stored and a canonical document:                      *)
(* NotetypesConfigWindow with its registry, its version check, reset and   *)
(* update.                                                                 *)
(***************************************************************************)

VersionLine(stamp) == <<"<!--", " ", "version", " ">> \o stamp \o <<" ", "-->", "\n">>
LineButtonShortcuts(entries) ==
    <<"va", "r", " ", "ButtonShortcuts", " ", "=", " ", "{", "\n">>
        \o entries \o <<"}", "\n">>
ShortcutEntry(name, key) ==
    <<"\"", name, "\"", " ", ":", " ", "\"">> \o key \o <<"\"", ",", "\n">>
\* {{#name}}<div mark>{{name}}</div>{{/name}}
FieldBlock(name, mark) ==
    <<"{{#", name, "}}", "<div", " ", mark, ">", "{{", name, "}}", "</div>",
      "{{/", name, "}}", "\n">>
AutoReveal(other, extra) ==
    LineAutoReveal(Entry("Other", <<other>>) \o <<"\n">>
                   \o Entry("Extra", <<extra>>) \o <<"\n">>)

\* the canonical documents: Front Template.html, Back Template.html and
\* Styling.css of the family
CanonNew ==
    [front |-> VersionLine(<<"2">>) \o LineAutoflip("false"),
     back |-> LineButtonShortcuts(ShortcutEntry("Other", <<"a">>)
                                  \o ShortcutEntry("Extra", <<"b">>))
              \o AutoReveal("false", "false")
              \o FieldBlock("Other", "class=\"hint\"")
              \o FieldBlock("Plain", "class=\"plain\"")
              \o FieldBlock("Extra", "id=\"extra\""),
     style |-> <<>>]
\* Extra comes first and is commented out; the mapping names Extra twice
CanonExtraFirst ==
    [front |-> VersionLine(<<"1", "0">>) \o LineAutoflip("true"),
     back |-> LineButtonShortcuts(ShortcutEntry("Extra", <<"b">>)
                                  \o ShortcutEntry("Missed", <<>>)
                                  \o ShortcutEntry("Extra", <<"a">>))
              \o AutoReveal("false", "true")
              \o <<"<!--", " ">> \o FieldBlock("Extra", "class=\"hint\"")
              \o <<"-->", "\n">>
              \o FieldBlock("Other", "class=\"hint\""),
     style |-> StylePlain]
\* no stamp, no mapping of the buttons, no block
CanonUnstamped ==
    [front |-> LineAutoflip("false"),
     back |-> AutoReveal("true", "true"),
     style |-> <<>>]

CanonDocs == {CanonNew, CanonExtraFirst, CanonUnstamped}

\* the documents of the collection
StoredDocs ==
    { [front |-> VersionLine(<<"1">>) \o LineAutoflip("true"),
       back |-> LineAutoReveal(Entry("Other", <<"false">>) \o <<"\n">>
                               \o Entry("Extra", <<"true">>) \o <<"\n">>
                               \o Entry("Missed", <<"true">>) \o <<"\n">>),
       style |-> StyleNoCard],
      [front |-> VersionLine(<<"2">>) \o LineAutoflip("true"),
       back |-> AutoReveal("true", "false"),
       style |-> <<>>],
      \* a stamp that is no word
      [front |-> VersionLine(<<"1", ".", "2">>) \o LineAutoflip("false"),
       back |-> AutoReveal("true", "true"),
       style |-> <<>>],
      \* the stamp on the second line
      [front |-> <<"\n">> \o VersionLine(<<"2">>) \o LineAutoflip("false"),
       back |-> AutoReveal("false", "false"),
       style |-> <<>>],
      \* no stamp
      [front |-> LineAutoflip("false"),
       back |-> AutoReveal("false", "true"),
       style |-> <<>>],
      \* an older document: the button Extra is not there yet
      [front |-> VersionLine(<<"0">>) \o LineAutoflip("true"),
       back |-> LineAutoReveal(Entry("Other", <<"false">>) \o <<"\n">>),
       style |-> <<>>] }

\* setting_configs.keys(), in the table's order
WindowTables ==
    { <<"autoreveal_extra", "autoflip", "autoreveal_missed", "autoreveal_other">>,
      <<"autoreveal_other", "autoreveal_extra", "autoflip">> }

WindowInit ==
    /\ ntss \in WindowTables
    /\ canon \in CanonDocs
    /\ \E doc \in StoredDocs :
          /\ model = [name |-> NotetypeName, css |-> doc.style, tmpls |-> 1]
          /\ heap = [r \in {1} |-> [qfmt |-> doc.front, afmt |-> doc.back]]
          /\ old = doc
          /\ store \in {(NotetypeName :> doc), <<>>}
    /\ conf = <<>>
    /\ pc = "start"
    /\ ret = [op |-> "none", exc |-> "none"]
    /\ shown = <<>>

\* NotetypesConfigWindow.models_with_available_updates()
CallModelsWithAvailableUpdates ==
    /\ pc \in {"start", "read"}
    /\ ret' = [op |-> "models_with_available_updates", exc |-> "none",
               models |-> ModelsWithAvailableUpdates(NotetypeName, store, model,
                                                     heap, canon)]
    /\ shown' = <<>>
    /\ pc' = "done"
    /\ UNCHANGED <<ntss, model, heap, conf, old, canon, store>>

\* NotetypesConfigWindow._add_notetype_settings_tab(notetype_name, window)
AddNotetypeSettingsTab ==
    /\ pc = "read"
    /\ model.name \in DOMAIN store
    /\ ret' = [op |-> "_add_notetype_settings_tab", exc |-> "none",
               tab |-> TabOf(ntss, model, heap, canon)]
    /\ shown' = <<>>
    /\ pc' = "done"
    /\ UNCHANGED <<ntss, model, heap, conf, old, canon, store>>

\* the end of a reset or an update: mw.col.models.update_dict(model), then
\* _reload_tab(model["name"]) sets the tab up and reads the settings in
Reloaded(op, m, h) ==
    /\ model' = m
    /\ heap' = h
    /\ store' = [store EXCEPT ![model.name] = Blobs(m, h)]
    /\ \E r \in {WindowReadInSettingsFromNotetypes(Ntss(ntss), m, h, conf)} :
           /\ conf' = r.conf
           /\ shown' = r.shown
           /\ ret' = [op |-> op, exc |-> r.exc, answer |-> TRUE, before |-> conf,
                      tab |-> TabOf(ntss, m, h, canon)]
           /\ pc' = IF r.exc = "none" THEN "read" ELSE "crashed"

\* the user has answered askUser with no: the handler returns
Declined(op) ==
    /\ ret' = [op |-> op, exc |-> "none", answer |-> FALSE]
    /\ shown' = <<>>
    /\ pc' = "done"
    /\ UNCHANGED <<model, heap, store, conf>>

\* NotetypesConfigWindow._reset_notetype_and_reload_ui(model); the family has
\* the one version model
ResetNotetypeAndReloadUi(answer) ==
    /\ pc = "read"
    /\ model.name \in DOMAIN store
    /\ IF ~answer THEN Declined("_reset_notetype_and_reload_ui")
       ELSE \E u \in {UpdateNotetypeToNewestVersion(model, heap, canon)} :
                Reloaded("_reset_notetype_and_reload_ui", u.model, u.heap)
    /\ old' = Blobs(model, heap)
    /\ UNCHANGED <<ntss, canon>>

\* reset_notetype_and_reload_ui(notetype_name, window) of config.py
LegacyResetNotetypeAndReloadUi(answer) ==
    /\ pc = "read"
    /\ model.name \in DOMAIN store
    /\ IF ~answer THEN Declined("reset_notetype_and_reload_ui")
       ELSE /\ \E u \in {ResetNotetype(model, heap, canon)} :
                   /\ model' = u.model
                   /\ heap' = u.heap
            /\ store' = [store EXCEPT ![model.name] = Blobs(model', heap')]
            /\ \E r \in {ReadInSettingsFromNotetypes(Ntss(ntss), model', heap',
                                                     conf)} :
                   /\ conf' = r.conf
                   /\ shown' = r.shown
                   /\ ret' = [op |-> "reset_notetype_and_reload_ui",
                              exc |-> r.exc, answer |-> TRUE]
                   /\ pc' = IF r.exc = "none" THEN "read" ELSE "crashed"
    /\ old' = Blobs(model, heap)
    /\ UNCHANGED <<ntss, canon>>

\* NotetypesConfigWindow._update_all_notetypes_to_newest_version_and_reload_ui:
\* task, then on_done.  The model of to_be_updated and its version model are
\* the collection's one object for the name.  An exception of task is raised
\* again by updated_models_fut.result().
UpdateAllNotetypesToNewestVersionAndReloadUi(answer) ==
    /\ pc = "read"
    /\ LET op == "_update_all_notetypes_to_newest_version_and_reload_ui"
       IN  IF ~answer THEN Declined(op)
           ELSE IF ModelsWithAvailableUpdates(NotetypeName, store, model, heap,
                                              canon) = <<>>
           THEN /\ ret' = [op |-> op, exc |-> "none", answer |-> TRUE,
                           updated |-> <<>>]
                /\ shown' = <<>>
                /\ pc' = "done"
                /\ UNCHANGED <<model, heap, store, conf>>
           ELSE \E u \in {UpdateNotetypeToNewestVersion(model, heap, canon)} :
                \E r \in {SafeUpdateModelSettings(
                              NtssForModel(Ntss(ntss), u.model, u.heap),
                              u.model, u.heap, model.name, conf, FALSE)} :
                    IF r.exc # "none"
                    THEN /\ model' = r.model
                         /\ heap' = r.heap
                         /\ ret' = [op |-> op, exc |-> r.exc, answer |-> TRUE]
                         /\ shown' = <<>>
                         /\ pc' = "crashed"
                         /\ UNCHANGED <<store, conf>>
                    ELSE Reloaded(op, r.model, r.heap)
    /\ old' = Blobs(model, heap)
    /\ UNCHANGED <<ntss, canon>>

\* the tables of model_settings.py for the family: the descriptors of the
\* buttons are tagged with their button
HintButtonTables ==
    { <<HintButtonNts("autoreveal_other"), setting_configs["autoflip"],
        HintButtonNts("autoreveal_extra"), HintButtonNts("autoreveal_missed")>>,
      <<setting_configs["autoflip"], HintButtonNts("autoreveal_extra"),
        HintButtonNts("autoreveal_other")>>,
      <<setting_configs["autoflip"]>> }

\* ntss_for_notetype(notetype_name) of config.py, from the list result on
CallNtssForNotetype ==
    /\ pc \in {"start", "read"}
    /\ \E result \in HintButtonTables :
       \E r \in {AdjustHintButtonNtsOrder(result, canon.back)} :
           ret' = [op |-> "ntss_for_notetype", exc |-> r.exc,
                   table |-> result,
                   result |-> IF r.exc = "none" THEN r.v ELSE <<>>]
    /\ shown' = <<>>
    /\ pc' = "done"
    /\ UNCHANGED <<ntss, model, heap, conf, old, canon, store>>

\* the sessions in which the user resets and updates without a change of a
\* widget in between
WindowNext ==
    \/ WindowOpen
    \/ CallNtssForNotetype
    \/ CallModelsWithAvailableUpdates
    \/ AddNotetypeSettingsTab
    \/ \E answer \in BOOLEAN : ResetNotetypeAndReloadUi(answer)
    \/ \E answer \in BOOLEAN : LegacyResetNotetypeAndReloadUi(answer)
    \/ \E answer \in BOOLEAN : UpdateAllNotetypesToNewestVersionAndReloadUi(answer)

WindowSpec == WindowInit /\ [][WindowNext]_vars

(***************************************************************************)
(* The reorderable list and the wrapped booleans of the window: the        *)
(* descriptors field_order and disable_<field> on back templates with      *)
(* conditional blocks.                                                     *)
(***************************************************************************)

\* {{#name}}<div mark>{{name}}</div>{{/name}}, without the line's end
FieldCore(name, mark) ==
    <<"{{#", name, "}}", "<div", " ", mark, ">", "{{", name, "}}", "</div>",
      "{{/", name, "}}">>

\* the back templates of the families of one descriptor
ListDocs(name) ==
    CASE name = "field_order" ->
           OnlyBack({ FieldBlock("Other", "class=\"hint\"")
                          \o FieldBlock("Plain", "class=\"plain\"")
                          \o FieldBlock("Extra", "id=\"extra\""),
                      \* a block that is commented out, text between the blocks
                      <<"<!--", " ">> \o FieldCore("Extra", "class=\"hint\"")
                          \o <<" ", "-->", "\n", "x", "\n">>
                          \o FieldBlock("Other", "class=\"hint\""),
                      \* two blocks of one field
                      FieldBlock("Extra", "class=\"hint\"")
                          \o FieldBlock("Other", "class=\"hint\"")
                          \o FieldBlock("Extra", "id=\"extra\""),
                      \* text ahead of the blocks and after them
                      <<"x", "\n">> \o FieldBlock("Other", "id=\"extra\"")
                          \o FieldBlock("Extra", "id=\"extra\"")
                          \o <<"y">>,
                      \* one block
                      FieldBlock("Extra", "id=\"extra\""),
                      \* no qualifying block
                      FieldBlock("Plain", "class=\"plain\"") })
      [] name = "disable_extra" ->
           OnlyBack({ FieldBlock("Extra", "id=\"extra\""),
                      <<"<!--">> \o FieldCore("Extra", "id=\"extra\"")
                          \o <<"-->", "\n">>,
                      \* the opening marker alone
                      <<"<!--">> \o FieldBlock("Extra", "id=\"extra\""),
                      \* another block ahead, text around the markers
                      FieldBlock("Other", "class=\"hint\"")
                          \o <<"<!--">> \o FieldCore("Extra", "id=\"extra\"")
                          \o <<"-->", "x", "-->", "\n">>,
                      \* the closing marker alone
                      FieldCore("Extra", "id=\"extra\"") \o <<"-->", "\n">>,
                      \* the block of another field is commented out
                      <<"<!--">> \o FieldCore("Other", "class=\"hint\"")
                          \o <<"-->", "\n">>
                          \o FieldBlock("Extra", "id=\"extra\"") })

ListInit ==
    /\ ntss \in {<<"field_order">>, <<"disable_extra">>}
    /\ \E doc \in ListDocs(ntss[1]) :
          /\ model = [name |-> NotetypeName, css |-> doc.style, tmpls |-> 1]
          /\ heap = [r \in {1} |-> [qfmt |-> doc.front, afmt |-> doc.back]]
          /\ old = doc
          /\ canon = doc
          /\ store = (NotetypeName :> doc)
    /\ conf = <<>>
    /\ pc = "start"
    /\ ret = [op |-> "none", exc |-> "none"]
    /\ shown = <<>>

\* the window reads the settings in, the user changes the widget, and the
\* value is encoded
ListNext ==
    \/ WindowOpen
    \/ \E i \in 1..Len(ntss) : \E value \in Domain(Ntss(ntss)[i]) :
          SetValue(i, value)
    \/ \E i \in 1..Len(ntss) : CallUpdatedModel(i)
    \/ CallSafeUpdateModelSettings

ListSpec == ListInit /\ [][ListNext]_vars

(***************************************************************************)
(* The window over a collection that holds versions of the family's note   *)
(* type: model maps each name of the collection to the collection's object *)
(* for it, store to the document last written with update_dict, old is the *)
(* store before the last handler.                                          *)
(***************************************************************************)

\* the names the collection holds
VersionCollections ==
    { {NotetypeName}, {NotetypeName, AnkiHubName},
      {NotetypeName, AnkiHubName, CopyName, ForeignName}, {AnkiHubName} }

\* the documents of the versions
VersionDocs ==
    { [front |-> VersionLine(<<"1">>) \o LineAutoflip("true"),
       back |-> AutoReveal("true", "false"),
       style |-> <<>>],
      [front |-> VersionLine(<<"2">>) \o LineAutoflip("false"),
       back |-> AutoReveal("false", "true"),
       style |-> <<>>],
      \* an older document: the button Extra is not there yet
      [front |-> VersionLine(<<"0">>) \o LineAutoflip("true"),
       back |-> LineAutoReveal(Entry("Other", <<"false">>) \o <<"\n">>),
       style |-> <<>>] }

\* the template object of a name
RefOf(name) == CHOOSE r \in 1..Len(AllNamesAndIds) : AllNamesAndIds[r] = name

VersionsInit ==
    /\ ntss \in WindowTables
    /\ canon \in {CanonNew, CanonExtraFirst}
    /\ \E names \in VersionCollections : \E docs \in [names -> VersionDocs] :
          /\ CopyName \in names => docs[CopyName] = docs[AnkiHubName]
          /\ ForeignName \in names => docs[ForeignName] = docs[NotetypeName]
          /\ model = [n \in names |->
                         [name |-> n, css |-> docs[n].style, tmpls |-> RefOf(n)]]
          /\ heap = [r \in {RefOf(n) : n \in names} |->
                        [qfmt |-> docs[AllNamesAndIds[r]].front,
                         afmt |-> docs[AllNamesAndIds[r]].back]]
          /\ store = docs
          /\ old = docs
    /\ conf = <<>>
    /\ pc = "start"
    /\ ret = [op |-> "none", exc |-> "none"]
    /\ shown = <<>>

\* NotetypesConfigWindow.open over the collection: the settings are read in
\* from by_name(notetype_name), a family the collection lacks is skipped
VersionsOpen ==
    /\ pc = "start"
    /\ \E r \in {IF NotetypeName \in DOMAIN model
                 THEN WindowReadInSettingsFromNotetypes(
                          Ntss(ntss), model[NotetypeName], heap, <<>>)
                 ELSE [exc |-> "none", conf |-> <<>>, shown |-> <<>>]} :
           /\ conf' = r.conf
           /\ shown' = r.shown
           /\ ret' = [op |-> "NotetypesConfigWindow.open", exc |-> r.exc]
           /\ pc' = IF r.exc = "none" THEN "read" ELSE "crashed"
    /\ UNCHANGED <<ntss, model, heap, canon, store, old>>

\* the user changes the widget of one setting of the family's tab
VersionsSetValue(i, value) ==
    /\ pc = "read"
    /\ NotetypeName \in DOMAIN model
    /\ ret.op = "NotetypesConfigWindow.open"
    /\ conf' = ConfSet(conf, Key(Ntss(ntss)[i], NotetypeName), value)
    /\ ret' = [op |-> "conf.set", exc |-> "none"]
    /\ shown' = <<>>
    /\ UNCHANGED <<ntss, model, heap, pc, old, canon, store>>

\* _update_all_notetypes_to_newest_version_and_reload_ui up to the end of
\* task: askUser, then task on the background thread
UpdateTask(answer) ==
    /\ pc = "read"
    /\ LET op == "_update_all_notetypes_to_newest_version_and_reload_ui"
       IN  IF ~answer
           THEN /\ ret' = [op |-> op, exc |-> "none", answer |-> FALSE]
                /\ pc' = "done"
                /\ UNCHANGED <<model, heap>>
           ELSE IF \/ NotetypeName \notin DOMAIN model
                   \/ ~NewNotetypeVersionAvailable(model[NotetypeName], heap,
                                                   canon)
           THEN /\ ret' = [op |-> op, exc |-> "none", answer |-> TRUE,
                           updated |-> <<>>, versions |-> <<>>]
                /\ pc' = "task done"
                /\ UNCHANGED <<model, heap>>
           ELSE \E versions \in {NotetypeVersions(model, NotetypeName)} :
                \E r \in {UpdateVersionsLoop(versions, 1, model, heap, canon,
                                             Ntss(ntss), NotetypeName, conf)} :
                    /\ model' = r.models
                    /\ heap' = r.heap
                    /\ ret' = [op |-> op, exc |-> r.exc, answer |-> TRUE,
                               updated |-> <<NotetypeName>>,
                               versions |-> versions]
                    /\ pc' = "task done"
    /\ shown' = <<>>
    /\ old' = store
    /\ UNCHANGED <<ntss, canon, conf, store>>

\* on_done of the update: updated_models_fut.result() raises what task
\* raised; else update_dict(model) for the models task returned, and
\* _reload_tab(model["name"]) reads the settings in
UpdateOnDone ==
    /\ pc = "task done"
    /\ IF ret.exc # "none"
       THEN /\ pc' = "crashed"
            /\ ret' = [ret EXCEPT !.op = "on_done"]
            /\ UNCHANGED <<store, conf, shown>>
       ELSE /\ store' = [n \in DOMAIN store |->
                            IF n \in Range(ret.updated)
                            THEN Blobs(model[n], heap) ELSE store[n]]
            /\ \E r \in {IF ret.updated = <<>>
                         THEN [exc |-> "none", conf |-> conf, shown |-> <<>>]
                         ELSE WindowReadInSettingsFromNotetypes(
                                  Ntss(ntss), model[NotetypeName], heap, conf)} :
                  /\ conf' = r.conf
                  /\ shown' = r.shown
                  /\ ret' = [op |-> "on_done", exc |-> r.exc,
                             updated |-> ret.updated,
                             versions |-> ret.versions]
                  /\ pc' = IF r.exc = "none" THEN "done" ELSE "crashed"
    /\ UNCHANGED <<ntss, canon, model, heap, old>>

\* on_save: _apply_setting_changes_for_all_notetypes(), then window.close()
ApplySettingChangesForAllNotetypes ==
    /\ pc = "read"
    /\ \E versions \in {NotetypeVersions(model, NotetypeName)} :
       \E r \in {ApplySettingChangesLoop(versions, 1, model, heap, store,
                                         Ntss(ntss), NotetypeName, conf, <<>>,
                                         <<>>)} :
           /\ model' = r.models
           /\ heap' = r.heap
           /\ store' = r.store
           /\ shown' = r.shown
           /\ ret' = [op |-> "on_save", exc |-> r.exc, written |-> r.written,
                      versions |-> versions]
           /\ pc' = IF r.exc = "none" THEN "done" ELSE "crashed"
    /\ old' = store
    /\ UNCHANGED <<ntss, canon, conf>>

VersionsNext ==
    \/ VersionsOpen
    \/ \E i \in 1..Len(ntss) : \E value \in Domain(Ntss(ntss)[i]) :
          VersionsSetValue(i, value)
    \/ \E answer \in BOOLEAN : UpdateTask(answer)
    \/ UpdateOnDone
    \/ ApplySettingChangesForAllNotetypes

VersionsSpec == VersionsInit /\ [][VersionsNext]_vars

(***************************************************************************)
(* Profiles that open and close over a collection with the families' note  *)
(* types: conf is the add-on's written configuration, canon maps a family  *)
(* to its canonical document, old records the answer to the last notice    *)
(* and the store it was given on.                                          *)
(***************************************************************************)

\* a document with a stamp, or with none for the stamp <<>>
StampedDoc(stamp) ==
    [front |-> (IF stamp = <<>> THEN <<>> ELSE VersionLine(stamp))
                   \o LineAutoflip("true"),
     back |-> <<>>, style |-> <<>>]

\* the stamps of the note types of the collection, the stamps of the
\* canonical ones
StoredStamps == {<<>>, <<"1">>, <<"2">>}
CanonStamps == {<<"2">>, <<"3">>}

\* the collection's objects for the documents docs
ModelsOf(docs) ==
    [n \in DOMAIN docs |->
        [name |-> n, css |-> docs[n].style,
         tmpls |-> CHOOSE r \in 1..Len(AnkingNotetypeNames) :
                       AnkingNotetypeNames[r] = n]]
HeapOf(docs) ==
    [r \in {k \in 1..Len(AnkingNotetypeNames) :
                AnkingNotetypeNames[k] \in DOMAIN docs} |->
        [qfmt |-> docs[AnkingNotetypeNames[r]].front,
         afmt |-> docs[AnkingNotetypeNames[r]].back]]

NoticeInit ==
    /\ ntss = <<>>
    /\ canon \in [Range(AnkingNotetypeNames) -> {StampedDoc(s) : s \in CanonStamps}]
    /\ \E names \in SUBSET Range(AnkingNotetypeNames) :
       \E docs \in [names -> {StampedDoc(s) : s \in StoredStamps}] :
          /\ store = docs
          /\ model = ModelsOf(docs)
          /\ heap = HeapOf(docs)
          /\ old = [last |-> "none", store |-> docs]
    /\ conf = <<>>
    /\ pc = "closed"
    /\ ret = [op |-> "none", exc |-> "none"]
    /\ shown = <<>>

\* on_profile_did_open, its last call: maybe_show_notetypes_update_notice()
ProfileDidOpen(col, answer) ==
    /\ pc = "closed"
    /\ \E r \in {MaybeShowNotetypesUpdateNotice(col, model, heap, canon, conf,
                                                answer)} :
          /\ conf' = r.config
          /\ shown' = IF r.notice THEN << [by |-> "askUserDialog"] >> ELSE <<>>
          /\ ret' = [op |-> "maybe_show_notetypes_update_notice",
                     exc |-> "none", col |-> col, notice |-> r.notice,
                     answer |-> IF r.notice THEN answer ELSE "",
                     window |-> r.window, before |-> old, config |-> conf]
          /\ old' = IF r.notice
                    THEN [last |-> IF answer = "Remind me later"
                                   THEN "reminded" ELSE "answered",
                          store |-> store]
                    ELSE old
    /\ pc' = "open"
    /\ UNCHANGED <<ntss, model, heap, canon, store>>

\* the profile is closed
ProfileClose ==
    /\ pc = "open"
    /\ pc' = "closed"
    /\ ret' = [op |-> "close", exc |-> "none"]
    /\ shown' = <<>>
    /\ UNCHANGED <<ntss, model, heap, conf, old, canon, store>>

\* the user updates the note types in the window: every family with a new
\* version is stored with its canonical document
NoticeUpdateNotetypes ==
    /\ pc = "open"
    /\ AllModelsWithAvailableUpdates(AnkingNotetypeNames, model, heap, canon)
           # <<>>
    /\ \E docs \in {[n \in DOMAIN store |->
                        IF NewNotetypeVersionAvailable(model[n], heap, canon[n])
                        THEN canon[n] ELSE store[n]]} :
          /\ store' = docs
          /\ model' = ModelsOf(docs)
          /\ heap' = HeapOf(docs)
    /\ ret' = [op |-> "update", exc |-> "none"]
    /\ shown' = <<>>
    /\ UNCHANGED <<ntss, conf, pc, old, canon>>

NoticeNext ==
    \/ \E col \in BOOLEAN : \E answer \in {"Yes", "No", "Remind me later"} :
          ProfileDidOpen(col, answer)
    \/ ProfileClose
    \/ NoticeUpdateNotetypes

NoticeSpec == NoticeInit /\ [][NoticeNext]_vars

(***************************************************************************)
(* Properties.  In a state reached by a call, old holds the three texts    *)
(* the call started from, conf the value-map it read, ret what it returned.*)
(***************************************************************************)

\* the document the last call was given
OldModel == [name |-> model.name, css |-> old.style, tmpls |-> 1]
OldHeap == [r \in {1} |-> [qfmt |-> old.front, afmt |-> old.back]]

\* the three texts of the document the last call returned
Returned == Blobs(ret.model, heap)

Returns(op) == pc = "done" /\ ret.op = op /\ ret.exc = "none"

\* the descriptor of the last updated_model call, its value-map value, the
\* section it located and the text that section lies in
TheNts == Ntss(ntss)[ret.i]
TheValue == ConfGet(conf, Key(TheNts, model.name))
TheText == old[TheNts.file]
TheMatch == Search(TheNts.regex, TheText)
TheSection == Group0(TheText, TheMatch)

\* a value of the descriptor's kind
InKind(nts, v) ==
    CASE nts.type \in {"checkbox", "re_checkbox"} -> v.t = "bool"
      [] nts.type = "number" -> v.t = "int"
      [] nts.type = "color" /\ nts.with_inherit_option ->
           v \in {PyText(<<"inherit">>), PyText(<<"transparent">>)}
      [] OTHER -> v.t = "str"

\* decode(encode(section, v))
DecodeEncode(nts, section, v) ==
    LET encoded == SetSettingValue(nts, section, v)
    IN  IF encoded.exc # "none" THEN encoded
        ELSE ExtractSettingValue(nts, encoded.v)

\* C1: round trip.  Whenever a descriptor of any kind has encoded a value v
\* of its kind into a section on which decode succeeds, decoding the encoded
\* section yields v.
C1_RoundTrip ==
    Returns("updated_model") =>
        LET section == TheSection
        IN  (/\ InKind(TheNts, TheValue)
             /\ ExtractSettingValue(TheNts, section).exc = "none")
            => DecodeEncode(TheNts, section, TheValue) = Ok(TheValue)

\* C2: locality.  A successful encode of one descriptor leaves the text
\* before the start of the locator's match and the text after its end as
\* they were, puts the encoded section between them, and leaves the two
\* other texts as they were; also when the section's text occurs more than
\* once in its blob.
C2_Locality ==
    Returns("updated_model") =>
        LET f == TheNts.file
            m == TheMatch
            before == SubSeq(TheText, 1, m.start - 1)
            after == SubSeq(TheText, m.end, Len(TheText))
            encoded == SetSettingValue(TheNts, Group0(TheText, m), TheValue)
        IN  /\ m.ok
            /\ encoded.exc = "none"
            /\ Returned[f] = before \o encoded.v \o after
            /\ \A g \in {"front", "back", "style"} \ {f} : Returned[g] = old[g]

\* the section's text occurs at two places of its blob, and the encode has
\* changed the blob
C2_Witness ==
    /\ Returns("updated_model")
    /\ LET m == TheMatch
       IN  \E i \in 1..Len(TheText) :
               i # m.start /\ OccursAt(TheText, Group0(TheText, m), i)
    /\ Returned[TheNts.file] # TheText

(***************************************************************************)
(* encode_document and decode_document                                     *)
(***************************************************************************)

EncodeDocumentOps == {"safe_update_model", "_safe_update_model_settings"}

Encoded == pc = "done" /\ ret.op \in EncodeDocumentOps

\* the descriptor's section can be located in the document the call was given
Locatable(nts) == RelevantTemplateSection(nts, OldModel, OldHeap).exc = "none"

\* ... and its value can be extracted
Decodable(nts) == SettingValue(nts, OldModel, OldHeap).exc = "none"

Unlocatable == {i \in 1..Len(ntss) : ~Locatable(Ntss(ntss)[i])}

\* the entries of the report of the last call (a call shows one report or none)
Reported == IF shown = <<>> THEN <<>> ELSE shown[1].entries

\* the failure of a descriptor that cannot be located
CouldNotFind(nts) ==
    [error |-> "could not find", name |-> nts.name, file |-> nts.file,
     notetype |-> model.name]

\* C3: partial-failure isolation.  When encode_document runs over N
\* descriptors of which exactly one cannot be located, the call returns, each
\* of the other N-1 descriptors reads back its value-map value (a value of its
\* kind) from the returned document, a blob only the failing descriptor lives in is left as it
\* was, and exactly one failure, the failing descriptor's, is reported.
C3_Isolation ==
    (Encoded /\ Cardinality(Unlocatable) = 1) =>
        LET i == CHOOSE k \in Unlocatable : TRUE
        IN  /\ ret.exc = "none"
            /\ \A j \in (1..Len(ntss)) \ {i} :
                  LET v == ConfGet(conf, Key(Ntss(ntss)[j], model.name))
                  IN  InKind(Ntss(ntss)[j], v) =>
                          SettingValue(Ntss(ntss)[j], ret.model, heap) = Ok(v)
            /\ (\A j \in (1..Len(ntss)) \ {i} :
                   Ntss(ntss)[j].file # Ntss(ntss)[i].file)
               => Returned[Ntss(ntss)[i].file] = old[Ntss(ntss)[i].file]
            /\ Len(shown) = 1
            /\ Reported = <<CouldNotFind(Ntss(ntss)[i])>>

\* encode_document as the text describes it: every descriptor in list order,
\* a failing one skipped and its failure recorded
RECURSIVE EncodeEach(_, _, _, _, _)
EncodeEach(q, m, h, c, failed) ==
    IF q = <<>> THEN [model |-> m, heap |-> h, failed |-> failed]
    ELSE LET r == UpdatedModel(Head(q), m, h, m.name, c)
         IN  IF r.exc = "none"
             THEN EncodeEach(Tail(q), r.model, r.heap, c, failed)
             ELSE EncodeEach(Tail(q), m, h, c, Append(failed, r.msg))

Expected == EncodeEach(Ntss(ntss), OldModel, OldHeap, conf, <<>>)

GuardedOps == EncodeDocumentOps \cup {"NotetypesConfigWindow.open"}

Guarded ==
    /\ pc # "start"
    /\ \/ ret.op \in GuardedOps
       \/ ret.op = "open_config_window" /\ ~ret.clayout

\* C5: codec failures are scoped to one descriptor.  When a descriptor's
\* section is located but its value cannot be extracted, decode_document and
\* encode_document end without an exception and report a failure.
C5_CodecFailureScoped ==
    (Guarded /\ \E i \in 1..Len(ntss) :
                    Locatable(Ntss(ntss)[i]) /\ ~Decodable(Ntss(ntss)[i]))
    => (ret.exc = "none" /\ Reported # <<>>)

\* the descriptor list of the call that opened the window
ListRead ==
    IF ret.op = "NotetypesConfigWindow.open"
    THEN NtssForModel(Ntss(ntss), OldModel, OldHeap)
    ELSE Ntss(ntss)

Opened ==
    pc # "start" /\ ret.op \in {"open_config_window", "NotetypesConfigWindow.open"}

\* C6: decode aggregates errors.  On every path that reads the settings when
\* the window is opened, the live preview path too, and every value that can
\* be located being extractable: the call ends without an exception, the
\* value-map holds the decoded value of each descriptor that can be located,
\* and the one report holds an entry for each descriptor that cannot, and
\* nothing else.
C6_DecodeAggregates ==
    (Opened /\ \A i \in 1..Len(ListRead) :
                   Locatable(ListRead[i]) => Decodable(ListRead[i]))
    => /\ ret.exc = "none"
       /\ \A i \in 1..Len(ListRead) :
             Locatable(ListRead[i]) =>
                 Ok(ConfGet(conf, Key(ListRead[i], model.name)))
                     = SettingValue(ListRead[i], OldModel, OldHeap)
       /\ Len(shown) <= 1
       /\ \A i \in 1..Len(ListRead) :
             ~Locatable(ListRead[i]) =>
                 \E e \in 1..Len(Reported) : Reported[e] = CouldNotFind(ListRead[i])
       /\ Len(Reported) = Cardinality({i \in 1..Len(ListRead) : ~Locatable(ListRead[i])})

\* C7: no in-place mutation.  After updated_model, and after
\* safe_update_model, the document object the caller passed in holds the three
\* texts it held before the call.
C7_NoInPlaceMutation ==
    (pc = "done" /\ ret.op \in {"updated_model", "safe_update_model"})
    => Blobs(model, heap) = old

\* C8: lossless read-then-write.  Encoding a document with the value-map that
\* decoding it gave returns a document with the same front, back and style.
C8_LosslessReadThenWrite ==
    (/\ Returns("safe_update_model")
     /\ conf = ReadInSettingsFromNotetypes(Ntss(ntss), OldModel, OldHeap, <<>>).conf)
    => Returned = old

\* the orders in which the family's descriptors can be processed
Orders ==
    {p \in [1..Len(ntss) -> Range(ntss)] :
        \A i, j \in 1..Len(ntss) : i # j => p[i] # p[j]}

\* C9: order independence.  For the document and value-map of a
\* safe_update_model call, every order of the family's descriptors gives the
\* document the call returned.
C9_OrderIndependence ==
    Returns("safe_update_model") =>
        \A p \in Orders :
            LET r == SafeUpdateModel(Ntss(p), OldModel, OldHeap, conf)
            IN  r.exc = "none" /\ Blobs(r.model, r.heap) = Returned

\* C10: color inherit collapse.  For a color descriptor with the inherit
\* option, a section on which decode succeeds and a value other than
\* "transparent", decoding the encoded section yields "inherit".
C10_InheritCollapse ==
    (/\ Returns("updated_model")
     /\ TheNts.type = "color" /\ TheNts.with_inherit_option
     /\ TheValue.t = "str" /\ TheValue # PyText(<<"transparent">>))
    => LET section == TheSection
           encoded == SetSettingValue(TheNts, section, TheValue)
       IN  ExtractSettingValue(TheNts, section).exc = "none" =>
               /\ encoded.exc = "none"
               /\ ExtractSettingValue(TheNts, encoded.v)
                      = Ok(PyText(<<"inherit">>))

(***************************************************************************)
(* The locator and the codecs, kind by kind                                *)
(***************************************************************************)

\* the positions of text at which the descriptor's pattern matches
MatchStarts(nts, text) ==
    {pos \in 1..(Len(text) + 1) : MatchAt(nts.regex, text, pos, 0, 0).ok}

\* C16: locator.  For every descriptor of the family and the document at
\* hand, _relevant_template_section raises the "could not find" exception,
\* naming the descriptor and its target text, exactly when the pattern
\* matches at no position of the target text; otherwise it returns the whole
\* span of the match at the leftmost position, a contiguous part of that
\* text.  A document is looked at in the first state it is at hand in: the
\* initial one, and one that the last operation has changed.
C16_Locator ==
    (pc = "start" \/ Blobs(model, heap) # old) =>
    \A i \in 1..Len(ntss) :
        LET nts == Ntss(ntss)[i]
            text == Blobs(model, heap)[nts.file]
            r == RelevantTemplateSection(nts, model, heap)
            at == [pos \in 1..(Len(text) + 1) |->
                      MatchAt(nts.regex, text, pos, 0, 0)]
            starts == {pos \in DOMAIN at : at[pos].ok}
        IN  IF starts = {}
            THEN /\ r.exc = "NotetypeParseException"
                 /\ r.msg.error = "could not find"
                 /\ r.msg.name = nts.name /\ r.msg.file = nts.file
            ELSE LET a == CHOOSE a \in starts : \A b \in starts : a <= b
                     e == at[a].end
                 IN  /\ r.exc = "none"
                     /\ a <= e /\ e <= Len(text) + 1
                     /\ r.v = [k \in 1..(e - a) |-> text[a + k - 1]]

\* a call has located a descriptor whose pattern matches at two positions
\* of its text, and another descriptor of the family matches nowhere
C16_Witness ==
    /\ pc = "done"
    /\ ret.op = "updated_model"
    /\ Blobs(model, heap) # old
    /\ Cardinality(MatchStarts(TheNts, TheText)) >= 2
    /\ \E i \in 1..Len(ntss) :
           MatchStarts(Ntss(ntss)[i], Blobs(model, heap)[Ntss(ntss)[i].file]) = {}

\* C17: color encode with the inherit option.  After a color descriptor with
\* the inherit option has encoded a text value into a located section,
\* whatever token was stored there, the token at the captured position is
\* "inherit" when the value is not "transparent" and is the value
\* ("transparent") otherwise.
C17_InheritEncode ==
    (/\ Returns("updated_model")
     /\ TheNts.type = "color" /\ TheNts.with_inherit_option
     /\ TheValue.t = "str")
    => LET encoded == SetSettingValue(TheNts, TheSection, TheValue)
       IN  /\ encoded.exc = "none"
           /\ Capture(TheNts, encoded.v)
                  = Ok(IF TheValue # PyText(<<"transparent">>)
                       THEN <<"inherit">> ELSE TheValue.s)

\* the section with the span of its capture replaced by the text new
SpanReplaced(nts, section, new) ==
    LET m == Search(nts.regex, section)
    IN  SubSeq(section, 1, m.s1 - 1) \o new
            \o SubSeq(section, m.e1, Len(section))

\* C18: boolean-literal encode.  When a checkbox descriptor has encoded a
\* boolean b into a section whose capture is "true" or "false", the encoded
\* section is the section with the captured literal replaced by the literal
\* of b, every other character as it was (also when "true" or "false" occurs
\* before the capture), and it decodes to b.
C18_BooleanLiteralEncode ==
    (/\ Returns("updated_model")
     /\ TheNts.type = "checkbox"
     /\ TheValue.t = "bool")
    => LET section == TheSection
           encoded == SetSettingValue(TheNts, section, TheValue)
       IN  Capture(TheNts, section) \in {Ok(<<"true">>), Ok(<<"false">>)} =>
               /\ encoded.exc = "none"
               /\ encoded.v = SpanReplaced(TheNts, section,
                                  IF TheValue.b THEN <<"true">> ELSE <<"false">>)
               /\ ExtractSettingValue(TheNts, encoded.v) = Ok(TheValue)

\* C19: integer encode.  When a number descriptor has encoded an integer n
\* into a section whose capture is a decimal integer, the encoded section is
\* the section with the captured literal replaced by the decimal text of n
\* and every other character as it was, also when the same digits occur
\* earlier in the section.
C19_IntegerEncode ==
    (/\ Returns("updated_model")
     /\ TheNts.type = "number"
     /\ TheValue.t = "int")
    => LET section == TheSection
           encoded == SetSettingValue(TheNts, section, TheValue)
       IN  NumberEditExtract(TheNts, section).exc = "none" =>
               /\ encoded.exc = "none"
               /\ encoded.v = SpanReplaced(TheNts, section, PyStr(TheValue))

\* C20: boolean-pair-presence decode.  For every re_checkbox descriptor of
\* the family and its located section: decode returns True exactly when every
\* on-literal occurs in the section and not every off-literal does, False
\* exactly when every off-literal occurs and not every on-literal does, and
\* raises the parse exception exactly in the two remaining cases.  With the
\* pair ("none", "block") the section ".timer {display: none;" decodes to
\* False, and encoding True makes the style ".timer {display: block;}".
C20_PairPresenceDecode ==
    /\ \A i \in 1..Len(ntss) :
         LET nts == Ntss(ntss)[i]
             section == RelevantTemplateSection(nts, model, heap)
         IN  (nts.type = "re_checkbox" /\ section.exc = "none") =>
                 LET on == \A p \in Range(nts.replacement_pairs) :
                               Contains(section.v, p[2])
                     off == \A p \in Range(nts.replacement_pairs) :
                                Contains(section.v, p[1])
                     r == ExtractSettingValue(nts, section.v)
                 IN  /\ r = Ok(PyBool(TRUE)) <=> (on /\ ~off)
                     /\ r = Ok(PyBool(FALSE)) <=> (off /\ ~on)
                     /\ r.exc = "NotetypeParseException"
                            <=> ((on /\ off) \/ (~on /\ ~off))
    /\ (/\ pc = "done" /\ ret.op = "updated_model"
        /\ TheNts.name = "timer"
        /\ old.style = TimerStyle("none"))
       => /\ ExtractSettingValue(TheNts, TheSection) = Ok(PyBool(FALSE))
          /\ TheValue = PyBool(TRUE) =>
                 ret.exc = "none" /\ Returned.style = TimerStyle("block")

\* True has been encoded into ".timer {display: none;}", which the window
\* had decoded to False
C20_Witness ==
    /\ Returns("updated_model")
    /\ TheNts.name = "timer"
    /\ old.style = TimerStyle("none")
    /\ TheValue = PyBool(TRUE)
    /\ Returned.style = TimerStyle("block")

\* a section that is neither fully on nor fully off
C20_WitnessNeither ==
    \E i \in 1..Len(ntss) :
        LET nts == Ntss(ntss)[i]
            section == RelevantTemplateSection(nts, model, heap)
        IN  /\ nts.type = "re_checkbox" /\ section.exc = "none"
            /\ \E p, q \in Range(nts.replacement_pairs) :
                   ~Contains(section.v, p[2]) /\ ~Contains(section.v, q[1])

(***************************************************************************)
(* Versioning, reset and update                                            *)
(***************************************************************************)

\* the stamp of the first line of a front template: W when the line is
\* "<!-- version W -->" for a non-empty word W, None for any other first
\* line and for a text without a line end
FirstLineStamp(front) ==
    LET nl == Find(front, <<"\n">>)
        line == SubSeq(front, 1, nl - 1)
        n == Len(line)
    IN  IF /\ nl # 0
           /\ n >= 7
           /\ SubSeq(line, 1, 4) = <<"<!--", " ", "version", " ">>
           /\ SubSeq(line, n - 1, n) = <<" ", "-->">>
           /\ \A i \in 5..(n - 2) : line[i] \in WordChars
        THEN PyText(SubSeq(line, 5, n - 2))
        ELSE PyNone

\* the family's document is in the collection
Stored == NotetypeName \in DOMAIN store

\* C13: staleness.  The stored document needs an update exactly when the
\* stamp of the first line of its front template differs from the stamp of
\* the canonical front template, a missing or malformed stamp counting as
\* None; and models_with_available_updates returns the stored document of
\* the family when that holds, and nothing when it does not hold or the
\* family is not in the collection.
C13_Staleness ==
    /\ Stored =>
           (NewNotetypeVersionAvailable(model, heap, canon)
                <=> FirstLineStamp(Blobs(model, heap).front)
                        # FirstLineStamp(canon.front))
    /\ ret.op = "models_with_available_updates" =>
           ret.models =
               IF Stored /\ FirstLineStamp(Blobs(model, heap).front)
                                # FirstLineStamp(canon.front)
               THEN <<model>> ELSE <<>>

\* the stored front template holds a version line that is no stamp of its
\* first line, the canonical one is stamped, and the call has returned the
\* document
C13_Witness ==
    /\ ret.op = "models_with_available_updates"
    /\ ret.models = <<model>>
    /\ Contains(Blobs(model, heap).front, <<"version">>)
    /\ FirstLineStamp(Blobs(model, heap).front) = PyNone
    /\ FirstLineStamp(canon.front) # PyNone


\* a reset the user has agreed to has run
ResetDone ==
    /\ ret.op \in {"_reset_notetype_and_reload_ui", "reset_notetype_and_reload_ui"}
    /\ ret.answer

\* C12: reset idempotence.  After a reset, of the window or of config.py, the
\* stored front, back and style texts of the family are the canonical ones
\* verbatim, whatever the texts were before; so a reset applied to a document
\* that is the result of a reset stores that same document again.
C12_ResetIdempotence ==
    ResetDone =>
        /\ Stored
        /\ store[NotetypeName] = canon
        /\ Blobs(model, heap) = canon
        /\ old = canon => store[NotetypeName] = old

\* a second reset: the document reset was itself the canonical one, which no
\* stored document of the initial states is
C12_Witness ==
    /\ ResetDone
    /\ ret.op = "reset_notetype_and_reload_ui"
    /\ old = canon
    /\ StoredDocs \cap CanonDocs = {}

\* a first reset of a document that differs from the canonical one in all
\* three texts
C12_WitnessFirst ==
    /\ ResetDone
    /\ old.front # canon.front
    /\ old.back # canon.back
    /\ old.style # canon.style


\* an update the user has agreed to has substituted the canonical document
\* and returned
UpdateDone ==
    /\ ret.op = "_update_all_notetypes_to_newest_version_and_reload_ui"
    /\ ret.answer
    /\ "updated" \notin DOMAIN ret
    /\ ret.exc = "none"

\* C11: update preserves settings.  After an update, every descriptor that is
\* present on the family's document both before and after the update decodes
\* from the stored post-update document to the value it decoded to from the
\* pre-update document.
C11_UpdatePreservesSettings ==
    UpdateDone =>
        \A i \in 1..Len(ntss) :
            LET nts == setting_configs[ntss[i]]
                pre == SettingValue(nts, OldModel, OldHeap)
                post == SettingValue(nts, model, heap)
            IN  (/\ IsPresent(nts, OldModel, OldHeap)
                 /\ IsPresent(nts, model, heap)
                 /\ pre.exc = "none")
                => /\ store[NotetypeName] = Blobs(model, heap)
                   /\ post = pre


\* the index at which a field name first appears among the qualifying
\* conditional blocks of a back template, -1 when it does not appear
FirstFieldIndex(name, back) ==
    LET fields == ConfigurableFieldsForNotetype(back)
        at == {j \in 1..Len(fields) : fields[j] = <<name>>}
    IN  IF at = {} THEN -1 ELSE CHOOSE j \in at : \A k \in at : j <= k

\* the position of a descriptor's name in a list of names without repetition
PositionIn(names, name) == CHOOSE i \in 1..Len(names) : names[i] = name

\* C15: field order.  The descriptors of a tab are a permutation of the
\* descriptors present on the document; the descriptors without a
\* configurable-field name keep their relative order; the descriptors with
\* one are ordered by the index at which the name first appears among the
\* qualifying conditional blocks of the canonical back template, those whose
\* name does not appear ahead of all those whose name does.
C15_FieldOrder ==
    "tab" \in DOMAIN ret =>
        LET input == Names(NtssForModel(Ntss(ntss), model, heap))
            tab == ret.tab
            tagged(n) == setting_configs[n].configurable_field_name # ""
            idx == [n \in Range(input) |->
                       FirstFieldIndex(setting_configs[n].configurable_field_name,
                                       canon.back)]
        IN  /\ Len(tab) = Len(input)
            /\ Range(tab) = Range(input)
            /\ \A i, j \in 1..Len(tab) : i < j =>
                   /\ tab[i] # tab[j]
                   /\ (~tagged(tab[i]) /\ ~tagged(tab[j]))
                          => PositionIn(input, tab[i]) < PositionIn(input, tab[j])
                   /\ (tagged(tab[i]) /\ tagged(tab[j]))
                          => /\ idx[tab[i]] <= idx[tab[j]]
                             /\ idx[tab[j]] = -1 => idx[tab[i]] = -1

\* a tab in which a descriptor whose field name is not found, two whose names
\* are found and one without a field name are shown, in another order than the
\* table's
C15_Witness ==
    /\ ret.op = "_add_notetype_settings_tab"
    /\ ret.tab = <<"autoflip", "autoreveal_missed", "autoreveal_other",
                   "autoreveal_extra">>
    /\ ntss = <<"autoreveal_extra", "autoflip", "autoreveal_missed",
                "autoreveal_other">>
    /\ FirstFieldIndex("Missed", canon.back) = -1
    /\ FirstFieldIndex("Other", canon.back) = 1
    /\ FirstFieldIndex("Extra", canon.back) = 2


\* the index of a button's name among the names of the embedded mapping of
\* buttons to shortcuts, 0 when the name is not among them
ButtonIndex(name, back) ==
    LET ordered_btn_names == BtnNameToShortcutOdict(back)
        at == {j \in 1..Len(ordered_btn_names) : ordered_btn_names[j] = <<name>>}
    IN  IF at = {} THEN 0 ELSE CHOOSE j \in at : TRUE

\* C14: shortcut-button order.  ntss_for_notetype returns without an error a
\* permutation of the table in which the descriptors tagged with a button whose
\* name is in the embedded mapping of the canonical back template follow the
\* order of the names in the mapping, and the tagged descriptors whose button
\* is not in the mapping come after them.
C14_ShortcutButtonOrder ==
    ret.op = "ntss_for_notetype" =>
        /\ ret.exc = "none"
        /\ Len(ret.result) = Len(ret.table)
        /\ Range(ret.result) = Range(ret.table)
        /\ \A i, j \in 1..Len(ret.result) :
               (/\ i < j
                /\ HintButtonSetting(ret.result[i]) # ""
                /\ HintButtonSetting(ret.result[j]) # "")
               => LET bi == ButtonIndex(HintButtonSetting(ret.result[i]), canon.back)
                      bj == ButtonIndex(HintButtonSetting(ret.result[j]), canon.back)
                  IN  bj # 0 => (bi # 0 /\ bi <= bj)

\* when every tagged descriptor's button is in the mapping, the call returns
\* the tagged descriptors in the mapping's order, ahead of the other ones in
\* the table's order
C14_OrderedWhenPresent ==
    (/\ ret.op = "ntss_for_notetype"
     /\ \A i \in 1..Len(ret.table) :
            HintButtonSetting(ret.table[i]) # ""
                => ButtonIndex(HintButtonSetting(ret.table[i]), canon.back) # 0)
    => /\ ret.exc = "none"
       /\ Len(ret.result) = Len(ret.table)
       /\ Range(ret.result) = Range(ret.table)
       /\ \A i, j \in 1..Len(ret.result) : i < j =>
              /\ HintButtonSetting(ret.result[i]) = ""
                     => HintButtonSetting(ret.result[j]) = ""
              /\ (/\ HintButtonSetting(ret.result[i]) # ""
                  /\ HintButtonSetting(ret.result[j]) # "")
                     => ButtonIndex(HintButtonSetting(ret.result[i]), canon.back)
                            <= ButtonIndex(HintButtonSetting(ret.result[j]),
                                           canon.back)

\* a call that has reordered two tagged descriptors
C14_WitnessReordered ==
    /\ ret.op = "ntss_for_notetype"
    /\ ret.exc = "none"
    /\ Names(ret.table) = <<"autoflip", "autoreveal_extra", "autoreveal_other">>
    /\ Names(ret.result) = <<"autoreveal_other", "autoreveal_extra", "autoflip">>


(***************************************************************************)
(* The codecs of the text kinds, the descriptor table, the list codecs     *)
(***************************************************************************)

SpanKinds == {"text", "shortcut", "font_family"}

\* C21: free-text, shortcut and font-family encode.  When a descriptor of
\* one of these kinds has encoded a string s, the text of its target is the
\* text before the span of the first capture group of the locator's match,
\* then s, then the text after that span: the section's prefix before the
\* capture and its suffix after it are as they were, for every s.
C21_SpanEncode ==
    (/\ Returns("updated_model")
     /\ TheNts.type \in SpanKinds
     /\ TheValue.t = "str")
    => LET m == TheMatch
       IN  /\ m.ok
           /\ Returned[TheNts.file]
                  = SubSeq(TheText, 1, m.s1 - 1) \o TheValue.s
                        \o SubSeq(TheText, m.e1, Len(TheText))
           /\ SetSettingValue(TheNts, TheSection, TheValue)
                  = Ok(SpanReplaced(TheNts, TheSection, TheValue.s))

\* a string has been encoded into a section in which the captured text
\* occurs before the capture as well
C21_Witness ==
    /\ Returns("updated_model")
    /\ TheNts.type \in SpanKinds
    /\ TheValue.t = "str"
    /\ TheMatch.ok
    /\ TheMatch.s1 < TheMatch.e1
    /\ Find(TheSection, Group1(TheText, TheMatch)) < TheMatch.s1 - TheMatch.start + 1
    /\ Returned[TheNts.file] # TheText


\* the character positions of the section the locator of nts finds in its
\* target text, none when it finds no section
SectionSpan(nts) ==
    LET text == Blobs(model, heap)[nts.file]
        m == Search(nts.regex, text)
    IN  IF m.ok THEN m.start..(m.end - 1) ELSE {}

\* C22: the sections of the descriptors do not overlap.  For the document at
\* hand, no two distinct descriptors of the family that target the same text
\* have located sections that share a character position.
C22_SectionsDisjoint ==
    \A i, j \in 1..Len(ntss) :
        (i < j /\ Ntss(ntss)[i].file = Ntss(ntss)[j].file)
            => SectionSpan(Ntss(ntss)[i]) \cap SectionSpan(Ntss(ntss)[j]) = {}


\* an update the user has agreed to has substituted the canonical document
UpdateRun ==
    /\ ret.op = "_update_all_notetypes_to_newest_version_and_reload_ui"
    /\ ret.answer
    /\ "updated" \notin DOMAIN ret

\* the canonical document as a model of the family
CanonModel == [name |-> model.name, css |-> canon.style, tmpls |-> 1]
CanonHeap == [r \in {1} |-> [qfmt |-> canon.front, afmt |-> canon.back]]

\* the value-map the update started with
Before == IF "before" \in DOMAIN ret THEN ret.before ELSE conf

\* a value-map without the entry of a key
WithoutKey(c, key) == [k \in (DOMAIN c) \ {key} |-> c[k]]

C23_Dropped ==
    UpdateRun =>
        \A i \in 1..Len(ntss) :
            LET nts == setting_configs[ntss[i]]
                key == Key(nts, model.name)
            IN  (~IsPresent(nts, CanonModel, CanonHeap) /\ key \in DOMAIN Before)
                => /\ ret.exc = "none"
                   /\ Blobs(model, heap)
                          = Blobs(SafeUpdateModelSettings(
                                      NtssForModel(Ntss(ntss), CanonModel, CanonHeap),
                                      CanonModel, CanonHeap, model.name,
                                      WithoutKey(Before, key), FALSE).model, heap)
                   /\ \A j \in 1..Len(Reported) : Reported[j].name # nts.name

\* an update has dropped the value of a descriptor that the canonical
\* document does not have
C23_WitnessDropped ==
    /\ UpdateRun
    /\ \E i \in 1..Len(ntss) :
           /\ ~IsPresent(setting_configs[ntss[i]], CanonModel, CanonHeap)
           /\ Key(setting_configs[ntss[i]], model.name) \in DOMAIN Before


\* the descriptor of the family of one descriptor
TheListNts == Ntss(ntss)[1]

\* the number of the elements of q that are equal to x
Count(q, x) == Cardinality({i \in 1..Len(q) : q[i] = x})

\* q is a rearrangement of r
IsPermutation(q, r) ==
    /\ Len(q) = Len(r)
    /\ \A i \in 1..Len(r) : Count(q, r[i]) = Count(r, r[i])

\* the texts of the qualifying elements of a back template, in document order
QualifyingElements(back) ==
    LET elems == SelectSeq(FindAll(CONDITIONAL_FIELD_RE, back), LAMBDA e :
                     Search(CONFIGURABLE_FIELD_HAS_TO_CONTAIN_RE, e.g0).ok)
    IN  [i \in 1..Len(elems) |-> elems[i].g0]

\* the texts around the qualifying elements of a back template: before the
\* first, between two neighbours, after the last
Interstitial(back) ==
    LET elems == Elements(field_order, back)
    IN  [i \in 1..(Len(elems) + 1) |->
            SubSeq(back, IF i = 1 THEN 1 ELSE elems[i - 1].end,
                   IF i > Len(elems) THEN Len(back) ELSE elems[i].start - 1)]

\* C24: reorderable-list codec.  Decode returns the names of the qualifying
\* elements in document order, as configurable_fields_for_notetype finds
\* them; and when a rearrangement p of the decoded names has been encoded,
\* the new section decodes to p, holds the same elements with the same
\* contents as many times each, and the texts around the elements are as
\* they were.
C24_ReorderableList ==
    (/\ pc \in {"read", "done"}
     /\ TheListNts.type = "order")
    => /\ ExtractSettingValue(TheListNts, old.back)
              = Ok(PyList(ConfigurableFieldsForNotetype(old.back)))
       /\ (/\ Returns("updated_model")
           /\ TheValue.t = "list"
           /\ IsPermutation(TheValue.l, ConfigurableFieldsForNotetype(old.back)))
          => /\ ExtractSettingValue(TheListNts, Returned.back) = Ok(TheValue)
             /\ ConfigurableFieldsForNotetype(Returned.back) = TheValue.l
             /\ IsPermutation(QualifyingElements(Returned.back),
                              QualifyingElements(old.back))
             /\ Interstitial(Returned.back) = Interstitial(old.back)

\* a rearrangement that moves an element has been encoded into a section
\* with two elements of one name and text between the elements
C24_Witness ==
    /\ Returns("updated_model")
    /\ TheListNts.type = "order"
    /\ TheValue.t = "list"
    /\ IsPermutation(TheValue.l, ConfigurableFieldsForNotetype(old.back))
    /\ TheValue.l # ConfigurableFieldsForNotetype(old.back)
    /\ Len(TheValue.l) = 3
    /\ Returned.back # old.back

\* a rearrangement has moved an element that is commented out
C24_WitnessCommented ==
    /\ Returns("updated_model")
    /\ TheListNts.type = "order"
    /\ TheValue.t = "list"
    /\ Returned.back # old.back
    /\ old.back[1] = "<!--"


\* C25: wrapped-boolean codec.  Decode returns True exactly when the
\* located section begins with "<!--" and ends with "-->", the markers right
\* around the field's conditional block.  When True has been encoded into a
\* section that decodes to False, the new text is the old one with one "<!--"
\* put before the section and one "-->" after it; when False has been
\* encoded into a section that decodes to True, the new text is the old one
\* without the section's first and last marker; when the value encoded is
\* the one the section decodes to, the text is as it was.  The block between
\* the markers is the same in every case.
C25_WrappedBoolean ==
    (/\ pc \in {"read", "done"}
     /\ TheListNts.type = "wrap_checkbox")
    => LET m == Search(TheListNts.regex, old.back)
           before == SubSeq(old.back, 1, m.start - 1)
           section == SubSeq(old.back, m.start, m.end - 1)
           after == SubSeq(old.back, m.end, Len(old.back))
           wrapped == old.back[m.start] = "<!--" /\ old.back[m.end - 1] = "-->"
       IN  m.ok =>
           /\ ExtractSettingValue(TheListNts, section) = Ok(PyBool(wrapped))
           /\ (Returns("updated_model") /\ TheValue.t = "bool") =>
                  Returned.back =
                      IF TheValue.b = wrapped THEN old.back
                      ELSE IF TheValue.b
                      THEN before \o <<"<!--">> \o section \o <<"-->">> \o after
                      ELSE before \o SubSeq(section, 2, Len(section) - 1)
                               \o after

\* False has been encoded into a block that is commented out, with text
\* around it
C25_Witness ==
    /\ Returns("updated_model")
    /\ TheListNts.type = "wrap_checkbox"
    /\ TheValue = PyBool(FALSE)
    /\ Returned.back # old.back
    /\ old.back[1] # "<!--"

\* True has been encoded into a block that has the opening marker alone
C25_WitnessHalf ==
    /\ Returns("updated_model")
    /\ TheListNts.type = "wrap_checkbox"
    /\ TheValue = PyBool(TRUE)
    /\ old.back[1] = "<!--"
    /\ Returned.back # old.back


\* C26: cross-descriptor non-interference.  When updated_model has encoded a
\* value of its kind with one descriptor of the family, every other
\* descriptor of the family that was present on the document is present on
\* the returned document and decodes there to the value it decoded to
\* before.
C26_NonInterference ==
    (/\ Returns("updated_model")
     /\ InKind(TheNts, TheValue))
    => \A j \in 1..Len(ntss) :
           (j # ret.i /\ IsPresent(Ntss(ntss)[j], OldModel, OldHeap)) =>
               /\ IsPresent(Ntss(ntss)[j], ret.model, heap)
               /\ SettingValue(Ntss(ntss)[j], ret.model, heap)
                      = SettingValue(Ntss(ntss)[j], OldModel, OldHeap)


(***************************************************************************)
(* The versions of the family in the collection: the update of all note    *)
(* types and the save                                                      *)
(***************************************************************************)

\* C27: the batch update reaches the store.  No document is written to the
\* store before task has finished; and when the user has confirmed the update
\* and on_done has run without an exception, the stored document of every
\* version of a family whose document was stale - the one of the family's
\* name, the one of an AnkiHub name, the one of a copy - holds the canonical
\* version stamp.
C27_BatchUpdateReachesStore ==
    /\ pc = "task done" => store = old
    /\ (pc = "done" /\ ret.op = "on_done" /\ ret.exc = "none") =>
           \A n \in Range(ret.versions) :
               ModelVersion(store[n].front) = ModelVersion(canon.front)

\* C27, the part that holds: task writes no document to the store, and the
\* document of the family's own name is stored with the canonical stamp
C27_BaseReachesStore ==
    /\ pc = "task done" => store = old
    /\ (pc = "done" /\ ret.op = "on_done" /\ ret.exc = "none") =>
           \A n \in Range(ret.updated) :
               /\ store[n] = Blobs(model[n], heap)
               /\ ModelVersion(store[n].front) = ModelVersion(canon.front)


\* the stored document of a name, as a model of the collection
StoredModel(n) == [name |-> n, css |-> store[n].style, tmpls |-> 1]
StoredHeap(n) == [r \in {1} |-> [qfmt |-> store[n].front, afmt |-> store[n].back]]

\* C28: the save applies to all versions.  When on_save has run, every
\* version of the family in the collection has been written with update_dict
\* exactly once, and every descriptor that is present on the stored document
\* of the family's name and on the stored document of a version decodes to
\* the same value on both.
C28_SaveAppliesToAllVersions ==
    ret.op = "on_save" =>
        \A n \in Range(ret.versions) :
            /\ Count(ret.written, n) = 1
            /\ NotetypeName \in DOMAIN store =>
                   \A i \in 1..Len(ntss) :
                       LET nts == Ntss(ntss)[i]
                       IN  (/\ IsPresent(nts, StoredModel(n), StoredHeap(n))
                            /\ IsPresent(nts, StoredModel(NotetypeName),
                                         StoredHeap(NotetypeName)))
                           => SettingValue(nts, StoredModel(n), StoredHeap(n))
                                  = SettingValue(nts, StoredModel(NotetypeName),
                                                 StoredHeap(NotetypeName))

\* C28, the writes: when on_save has run without an exception, every version
\* has been written exactly once, in the order of the collection's names
C28_WrittenOnce ==
    (ret.op = "on_save" /\ ret.exc = "none") => ret.written = ret.versions


(***************************************************************************)
(* The notice about new versions                                           *)
(***************************************************************************)

\* the last call was maybe_show_notetypes_update_notice with a collection
NoticeCall == ret.op = "maybe_show_notetypes_update_notice" /\ ret.col

\* some stored note type of a family has a stamp other than its canonical one
SomeStale ==
    \E n \in DOMAIN store :
        ModelVersion(store[n].front) # ModelVersion(canon[n].front)

\* C29: the notice is suppressed after an answer.  When the user has answered
\* a notice with Yes or No and the store is the one the answer was given on,
\* a profile that opens shows no notice.
C29_SuppressedAfterAnswer ==
    (/\ NoticeCall
     /\ ret.before.last = "answered"
     /\ ret.before.store = store)
    => ~ret.notice

\* C30: remind me later.  The notice is shown only when some stored note type
\* of a family is stale; the answer "Remind me later" leaves the written
\* configuration as it was; and when the last notice was answered with
\* "Remind me later" and the store is the one it was given on, a profile that
\* opens shows the notice again.
C30_RemindMeLater ==
    /\ (ret.op = "maybe_show_notetypes_update_notice" /\ ret.notice) =>
           ret.col /\ SomeStale
    /\ (NoticeCall /\ ret.notice /\ ret.answer = "Remind me later") =>
           conf = ret.config
    /\ (/\ NoticeCall
        /\ ret.before.last = "reminded"
        /\ ret.before.store = store)
       => ret.notice

\* a notice is shown again on the store on which the last one was answered
\* with "Remind me later", and this time the answer is written
C30_Witness ==
    /\ NoticeCall
    /\ ret.before.last = "reminded"
    /\ ret.before.store = store
    /\ ret.notice
    /\ ret.answer = "No"
    /\ conf # ret.config

====
